---- MODULE Spec2Model ----
(***************************************************************************)
(* Model of the stub TLS handshake engine of src/platform/tls_stub.c.      *)
(*                                                                         *)
(* One handshake context (QUIC_TLS) with its QUIC_TLS_PROCESS_STATE and    *)
(* its QUIC_SEC_CONFIG is driven by QuicTlsProcessData, QuicTlsReset and   *)
(* QuicTlsReadTicket.  Messages are byte strings; the output region is a   *)
(* byte array of BufferAllocLength entries.  A byte nobody has written is  *)
(* the value Unwritten.  Input memory is a record [Length, Data, Fill]:    *)
(* Length is the byte count the caller passes, Data the bytes at the       *)
(* pointer (they may continue past Length: that is memory behind the       *)
(* caller's buffer) and Fill the value of every byte after Data.           *)
(***************************************************************************)
EXTENDS Integers, Sequences, FiniteSets, TLC

VARIABLES Tls, State, SecConfig, Call, aborted, ErrorSeen, Refs, Exchange,
          Listener

vars ==
    << Tls, State, SecConfig, Call, aborted, ErrorSeen, Refs, Exchange,
       Listener >>

\* ---------------------------------------------------------------------------
\* Program constants
\* ---------------------------------------------------------------------------
TLS_MESSAGE_HEADER_LENGTH == 4
MAX_PARAM_LENGTH == 256

QUIC_TLS_MESSAGE_INVALID == 0
QUIC_TLS_MESSAGE_CLIENT_INITIAL == 1
QUIC_TLS_MESSAGE_CLIENT_HANDSHAKE == 2
QUIC_TLS_MESSAGE_SERVER_INITIAL == 3
QUIC_TLS_MESSAGE_SERVER_HANDSHAKE == 4
QUIC_TLS_MESSAGE_TICKET == 5
QUIC_TLS_MESSAGE_MAX == 6

TlsExt_ServerName == 0
TlsExt_AppProtocolNegotiation == 16
TlsExt_SessionTicket == 35
TlsExt_QuicTransportParameters == 65445

\* sizeof(QUIC_TLS_CLIENT_HELLO): 2 + 32 + 1 + 2 + 1 + 1 + 2
SizeofClientHello == 41
\* offsets inside QUIC_FAKE_TLS_MESSAGE (packed)
OffsetExtListLength == 43
OffsetExtList == 45

\* ---------------------------------------------------------------------------
\* Bounds of the model (not program constants)
\* ---------------------------------------------------------------------------
\* longest configured server name
MaxSniLength == 1
\* length of the non-empty local transport parameters
TPLength == 10
\* length of the non-empty formatted certificate chain
CertChainLength == 50

\* ---------------------------------------------------------------------------
\* Fixed-width integers and the wire codec
\* ---------------------------------------------------------------------------
Unwritten == 0 - 1

U8(x) == x % 256
U16(x) == x % 65536

Min(a, b) == IF a < b THEN a ELSE b

\* memory read at a byte offset
Byte(In, off) == IF off < Len(In.Data) THEN In.Data[off + 1] ELSE In.Fill

\* n bytes of memory from a byte offset on
ReadBytes(In, off, n) ==
    LET have == IF off >= Len(In.Data) THEN 0 ELSE Min(n, Len(In.Data) - off)
    IN  SubSeq(In.Data, off + 1, off + have) \o [i \in 1..(n - have) |-> In.Fill]

TlsReadUint16(In, off) == Byte(In, off) * 256 + Byte(In, off + 1)

TlsWriteUint16(Value) == << U8(Value \div 256), U8(Value) >>

TlsReadUint24(In, off) ==
    Byte(In, off) * 65536 + Byte(In, off + 1) * 256 + Byte(In, off + 2)

TlsWriteUint24(Value) ==
    << U8(Value \div 65536), U8(Value \div 256), U8(Value) >>

\* a store of Bytes at Buffer + off; bytes past the end of the region are
\* not part of it
Poke(Buffer, off, Bytes) ==
    IF off >= Len(Buffer) THEN Buffer
    ELSE LET n == Min(Len(Bytes), Len(Buffer) - off)
         IN  SubSeq(Buffer, 1, off) \o SubSeq(Bytes, 1, n)
                 \o SubSeq(Buffer, off + n + 1, Len(Buffer))

MinMessageLengths_NoFixedTP(Type) ==
    CASE Type = QUIC_TLS_MESSAGE_INVALID -> 0
      [] Type = QUIC_TLS_MESSAGE_CLIENT_INITIAL -> 0
      [] Type = QUIC_TLS_MESSAGE_CLIENT_HANDSHAKE -> 7 + 1
      [] Type = QUIC_TLS_MESSAGE_SERVER_INITIAL -> 7 + 1
      [] Type = QUIC_TLS_MESSAGE_SERVER_HANDSHAKE -> 7 + 3
      [] Type = QUIC_TLS_MESSAGE_TICKET -> 7 + 1

MinMessageLengths(Type) ==
    CASE Type = QUIC_TLS_MESSAGE_INVALID -> 0
      [] Type = QUIC_TLS_MESSAGE_CLIENT_INITIAL -> 0
      [] Type = QUIC_TLS_MESSAGE_CLIENT_HANDSHAKE -> 7 + 1
      [] Type = QUIC_TLS_MESSAGE_SERVER_INITIAL -> 7 + 1
      [] Type = QUIC_TLS_MESSAGE_SERVER_HANDSHAKE -> 7 + 3 + MAX_PARAM_LENGTH
      [] Type = QUIC_TLS_MESSAGE_TICKET -> 7 + 1

\* ---------------------------------------------------------------------------
\* Keys, security config, context and process state
\* ---------------------------------------------------------------------------
Epochs == {"Initial", "0-RTT", "Handshake", "1-RTT"}
NoKey == "NULL"

\* the handle is represented by the epoch it is tagged with
QuicStubAllocKey(Type) == Type

QuicPacketKeyUpdate_AnyEpoch(OldKey) ==
    IF OldKey = NoKey
    THEN [Status |-> "INVALID_STATE", NewKey |-> NoKey]
    ELSE [Status |-> "SUCCESS", NewKey |-> QuicStubAllocKey("1-RTT")]

\* the status and the key stored through NewKey (NoKey: nothing stored)
QuicPacketKeyUpdate(OldKey) ==
    IF OldKey = NoKey \/ OldKey # "1-RTT"
    THEN [Status |-> "INVALID_STATE", NewKey |-> NoKey]
    ELSE [Status |-> "SUCCESS", NewKey |-> QuicStubAllocKey("1-RTT")]

\* an optional string: <<>> is the NULL pointer, <<s>> a pointer to s
NullStr == << >>
Str(s) == << s >>

\* TlsContext->SecConfig is NullPtr or points to the one security config
NullPtr == "NULL"
SecConfigPtr == "SecConfig"

QuicTlsSecConfigRelease(SC) ==
    [SC EXCEPT !.RefCount = SC.RefCount - 1,
               !.Deleted = (SC.RefCount - 1 = 0)]

\* the steps of QuicTlsSecConfigAddRef and QuicTlsSecConfigRelease as other
\* threads see them: the interlocked operations are atomic, the delete
\* follows the decrement that returned 0
InterlockedIncrement_Lost(SC) == SC

InterlockedIncrement(SC) == [SC EXCEPT !.RefCount = SC.RefCount + 1]

InterlockedDecrement(SC) == [SC EXCEPT !.RefCount = SC.RefCount - 1]

QuicTlsSecConfigDelete(SC) == [SC EXCEPT !.Deleted = TRUE]

\* The sessions a context's TlsSession can point to, each the ALPN it was
\* initialized with.  QuicTlsSessionInitialize accepts every ALPN of at most
\* UINT16_MAX bytes.
SessionAlpn == << 104, 51 >>
LongAlpnLength == 65530
LongAlpn == [i \in 1..LongAlpnLength |-> 97]
Sessions == << SessionAlpn, LongAlpn >>

\* ---------------------------------------------------------------------------
\* What one processing call hands back: the context, the process state and
\* the security config after it, the result flags, the byte count written
\* back through *BufferLength, and a log of what the call did (transport
\* parameters handed to ReceiveTPCallback, records stored in the output
\* region, keys allocated, accesses outside the regions it was given, a
\* failed QUIC_FRE_ASSERT or a NULL dereference, both ending the process).
\* ---------------------------------------------------------------------------
Outcome(T, S, SC) ==
    [T |-> T, S |-> S, SC |-> SC, Flags |-> {}, Drain |-> 0,
     TPDelivered |-> << >>, Emitted |-> << >>, Allocs |-> << >>,
     OOBRead |-> FALSE, OOBWrite |-> FALSE, Abort |-> FALSE]

\* a record of Header and the rest stored at Buffer + Offset
Emission(Type, Offset, MessageLength, Header) ==
    [Type |-> Type, Offset |-> Offset, MessageLength |-> MessageLength,
     Header |-> Header]

\* ---------------------------------------------------------------------------
\* QuicTlsClientProcess, case QUIC_TLS_MESSAGE_INVALID: emit ClientInitial
\* ---------------------------------------------------------------------------
\* the stores of the case, in program order, as <<offset in message, bytes>>
ClientInitialStores(T) ==
    LET HasSni == T.SNI # NullStr
        Name == IF HasSni THEN T.SNI[1] ELSE << >>
        SniNameLength == U16(Len(Name))
        Ext0 == 0
        SniStores ==
            IF HasSni
            THEN << << OffsetExtList,
                       TlsWriteUint16(TlsExt_ServerName)
                       \o TlsWriteUint16(U16(5 + SniNameLength))
                       \o TlsWriteUint16(U16(3 + SniNameLength))
                       \o << 0 >>
                       \o TlsWriteUint16(SniNameLength)
                       \o SubSeq(Name, 1, SniNameLength) >> >>
            ELSE << >>
        Ext1 == IF HasSni THEN U16(Ext0 + 9 + SniNameLength) ELSE Ext0
        AlpnLength == U16(Len(Sessions[T.TlsSession]))
        AlpnStores ==
            << << OffsetExtList + Ext1,
                  TlsWriteUint16(TlsExt_AppProtocolNegotiation)
                  \o TlsWriteUint16(U16(3 + AlpnLength))
                  \o TlsWriteUint16(U16(1 + AlpnLength))
                  \o << U8(AlpnLength) >>
                  \o SubSeq(Sessions[T.TlsSession], 1, AlpnLength) >> >>
        Ext2 == U16(Ext1 + 7 + AlpnLength)
        \* State->EarlyDataAttempted was set to TRUE at the top of the case
        TicketExtStores ==
            << << OffsetExtList + Ext2,
                  TlsWriteUint16(TlsExt_SessionTicket) \o TlsWriteUint16(0) >> >>
        Ext3 == U16(Ext2 + 4)
        TPStores ==
            << << OffsetExtList + Ext3,
                  TlsWriteUint16(TlsExt_QuicTransportParameters)
                  \o TlsWriteUint16(U16(Len(T.LocalTP)))
                  \o T.LocalTP >> >>
        ExtListLength == U16(Ext3 + 4 + U16(Len(T.LocalTP)))
        MessageLength == U16(SizeofClientHello + ExtListLength + 4)
    IN  [Stores |->
            << << 0, << QUIC_TLS_MESSAGE_CLIENT_INITIAL >> >>,
               << 4, TlsWriteUint16(770) >>,
               \* SessionIdLength, CipherSuiteLength, CompressionMethodLength
               << 38, << 0 >> \o TlsWriteUint16(0) \o << 1 >> >> >>
            \o SniStores \o AlpnStores \o TicketExtStores \o TPStores
            \o << << OffsetExtListLength, TlsWriteUint16(ExtListLength) >>,
                  << 1, TlsWriteUint24(MessageLength - 4) >> >>,
         ExtListLength |-> ExtListLength,
         MessageLength |-> MessageLength,
         Header |-> << QUIC_TLS_MESSAGE_CLIENT_INITIAL >>
                    \o TlsWriteUint24(MessageLength - 4)]

\* the end of the farthest store, relative to the start of the region
StoresEnd(Base, Stores) ==
    LET Ends == {Base + Stores[i][1] + Len(Stores[i][2]) : i \in 1..Len(Stores)}
    IN  IF Ends = {} THEN 0 ELSE CHOOSE e \in Ends : \A f \in Ends : f <= e

\* the stores, in program order, as an image of the bytes they span: byte i
\* holds what the last store covering it put there
Image(n, Stores) ==
    [i \in 1..n |->
        LET Covering == {k \in 1..Len(Stores) :
                            /\ i - 1 >= Stores[k][1]
                            /\ i - 1 < Stores[k][1] + Len(Stores[k][2])}
        IN  IF Covering = {} THEN Unwritten
            ELSE LET k == CHOOSE c \in Covering : \A d \in Covering : d <= c
                 IN  Stores[k][2][i - Stores[k][1]]]

\* the region after the stores were made at Buffer + Base: a byte no store
\* touched keeps its value, a store past the end of the region is not in it
ApplyStores(Buffer, Base, Stores) ==
    LET n == StoresEnd(0, Stores)
        Img == Image(n, Stores)
        m == Min(n, Len(Buffer) - Base)
    IN  IF Base >= Len(Buffer) THEN Buffer
        ELSE SubSeq(Buffer, 1, Base)
             \o [i \in 1..m |-> IF Img[i] = Unwritten THEN Buffer[Base + i]
                                                      ELSE Img[i]]
             \o SubSeq(Buffer, Base + m + 1, Len(Buffer))

ClientProcessInvalid_FlagsWriteKey(T, S, SC) ==
    LET CI == ClientInitialStores(T)
        Buffer == ApplyStores(S.Buffer, S.BufferLength, CI.Stores)
        S1 == [S EXCEPT !.EarlyDataAttempted = TRUE,
                        !.EarlyDataAccepted = FALSE,
                        !.Buffer = Buffer,
                        !.BufferLength = CI.MessageLength,
                        !.BufferTotalLength = CI.MessageLength,
                        !.WriteKey = "0-RTT",
                        !.WriteKeys["0-RTT"] = QuicStubAllocKey("0-RTT")]
    IN  [Outcome([T EXCEPT !.LastMessageType = QUIC_TLS_MESSAGE_CLIENT_INITIAL],
                 S1, SC)
            EXCEPT !.Flags = {"Data", "WriteKeyUpdated"},
                   !.Emitted = << Emission(QUIC_TLS_MESSAGE_CLIENT_INITIAL,
                                           S.BufferLength, CI.MessageLength,
                                           CI.Header) >>,
                   !.Allocs = << << "Write", "0-RTT" >> >>,
                   !.OOBWrite = StoresEnd(S.BufferLength, CI.Stores)
                                    > S.BufferAllocLength]

ClientProcessInvalid(T, S, SC) ==
    LET CI == ClientInitialStores(T)
        Buffer == ApplyStores(S.Buffer, S.BufferLength, CI.Stores)
        S1 == [S EXCEPT !.EarlyDataAttempted = TRUE,
                        !.EarlyDataAccepted = FALSE,
                        !.Buffer = Buffer,
                        !.BufferLength = CI.MessageLength,
                        !.BufferTotalLength = CI.MessageLength,
                        !.WriteKey = "0-RTT",
                        !.WriteKeys["0-RTT"] = QuicStubAllocKey("0-RTT")]
    IN  [Outcome([T EXCEPT !.LastMessageType = QUIC_TLS_MESSAGE_CLIENT_INITIAL],
                 S1, SC)
            EXCEPT !.Flags = {"Data"},
                   !.Emitted = << Emission(QUIC_TLS_MESSAGE_CLIENT_INITIAL,
                                           S.BufferLength, CI.MessageLength,
                                           CI.Header) >>,
                   !.Allocs = << << "Write", "0-RTT" >> >>,
                   !.OOBWrite = StoresEnd(S.BufferLength, CI.Stores)
                                    > S.BufferAllocLength]

\* ---------------------------------------------------------------------------
\* QuicTlsServerProcess, case QUIC_TLS_MESSAGE_INVALID
\* ---------------------------------------------------------------------------
\* the host name of a QUIC_TLS_SNI_EXT at ExtList: NameLength bytes of Name
SniNameOfExt(In, ExtList) ==
    ReadBytes(In, ExtList + 9, TlsReadUint16(In, ExtList + 7))

\* the value handed to ReceiveTPCallback for a QUIC_TLS_QUIC_TP_EXT at ExtList
QuicTPOfExt(In, ExtList, ExtLength) == ReadBytes(In, ExtList + 4, ExtLength)

\* the while loop over the extension list; Acc carries what it has done
RECURSIVE ServerParseExtList(_, _, _, _)
ServerParseExtList(In, ExtList, ExtListLength, Acc) ==
    IF ExtListLength = 0 THEN Acc
    ELSE
      LET ExtType == TlsReadUint16(In, ExtList)
          ExtLength == TlsReadUint16(In, ExtList + 2)
          A1 == [Acc EXCEPT !.OOBRead = @ \/ ExtList + 4 > In.Length]
      IN  IF ~(ExtLength + 4 <= ExtListLength)
          THEN [A1 EXCEPT !.Abort = TRUE]
          ELSE
            LET A2 ==
                  CASE ExtType = TlsExt_ServerName ->
                         \* SNI->NameLength is an array: the test is always true
                         [A1 EXCEPT
                            !.SNI = Str(SniNameOfExt(In, ExtList)),
                            !.OOBRead = @ \/ ExtList + 9
                                + TlsReadUint16(In, ExtList + 7) > In.Length]
                    [] ExtType = TlsExt_AppProtocolNegotiation -> A1
                    [] ExtType = TlsExt_SessionTicket ->
                         [A1 EXCEPT !.EarlyDataAttempted = TRUE,
                                    !.EarlyDataAccepted = TRUE]
                    [] ExtType = TlsExt_QuicTransportParameters ->
                         [A1 EXCEPT
                            !.TPDelivered =
                                Append(@, QuicTPOfExt(In, ExtList, ExtLength)),
                            !.OOBRead = @ \/ ExtList + 4 + ExtLength > In.Length]
                    [] OTHER -> [A1 EXCEPT !.Abort = TRUE]
            IN  IF A2.Abort THEN A2
                ELSE ServerParseExtList(In, ExtList + ExtLength + 4,
                                        ExtListLength - (ExtLength + 4), A2)

\* the bytes of the ServerInitial record: header and the bit field
ServerInitialStores(EarlyDataAccepted) ==
    LET MessageLength == MinMessageLengths(QUIC_TLS_MESSAGE_SERVER_INITIAL)
    IN  << << 1, TlsWriteUint24(MessageLength - 4) >>,
           << 0, << QUIC_TLS_MESSAGE_SERVER_INITIAL >> >>,
           << 4, << IF EarlyDataAccepted THEN 2 ELSE 0 >> >> >>

\* the bytes of the ServerHandshake record; CertificateLength is stored as a
\* native uint16_t (low byte first)
ServerHandshakeStores(MessageLength, LocalTP, FormatBuffer) ==
    << << 1, TlsWriteUint24(MessageLength - 4) >>,
       << 0, << QUIC_TLS_MESSAGE_SERVER_HANDSHAKE >> >>,
       << 4, << U8(Len(LocalTP)) >> >>,
       << 5, LocalTP >>,
       << 5 + MAX_PARAM_LENGTH,
          << U8(Len(FormatBuffer)), U8(Len(FormatBuffer) \div 256) >> >>,
       << 5 + MAX_PARAM_LENGTH + 2, FormatBuffer >> >>

ServerProcessInvalid(T, S, SC, In, Env) ==
    IF Byte(In, 0) # QUIC_TLS_MESSAGE_CLIENT_INITIAL
    THEN [Outcome(T, S, SC) EXCEPT !.Abort = TRUE]
    ELSE
    LET MaxServerMessageLength == U16(S.BufferAllocLength - S.BufferLength)
        ExtListLength == TlsReadUint16(In, OffsetExtListLength)
        P == ServerParseExtList(In, OffsetExtList, ExtListLength,
                [SNI |-> T.SNI, EarlyDataAttempted |-> FALSE,
                 EarlyDataAccepted |-> FALSE, TPDelivered |-> << >>,
                 OOBRead |-> OffsetExtList > In.Length, Abort |-> FALSE])
        T1 == [T EXCEPT !.SNI = P.SNI]
        S1 == [S EXCEPT !.EarlyDataAttempted = P.EarlyDataAttempted,
                        !.EarlyDataAccepted = P.EarlyDataAccepted]
        O1 == [Outcome(T1, S1, SC) EXCEPT !.TPDelivered = P.TPDelivered,
                                          !.OOBRead = P.OOBRead]
        MessageLength1 == MinMessageLengths(QUIC_TLS_MESSAGE_SERVER_INITIAL)
        SIStores == ServerInitialStores(P.EarlyDataAccepted)
        S2 == [S1 EXCEPT !.Buffer = ApplyStores(S.Buffer, S.BufferLength, SIStores),
                         !.BufferLength = MessageLength1,
                         !.BufferTotalLength = MessageLength1,
                         !.BufferOffsetHandshake = MessageLength1]
        E1 == Emission(QUIC_TLS_MESSAGE_SERVER_INITIAL, S.BufferLength,
                       MessageLength1,
                       << QUIC_TLS_MESSAGE_SERVER_INITIAL >>
                           \o TlsWriteUint24(MessageLength1 - 4))
        O2 == [O1 EXCEPT !.S = S2, !.Emitted = << E1 >>,
                         !.OOBWrite = StoresEnd(S.BufferLength, SIStores)
                                          > S.BufferAllocLength]
        MaxServerMessageLength2 == U16(S.BufferAllocLength - MessageLength1)
        FormatLength == Len(SC.FormatBuffer)
        MessageLength2 ==
            U16(MinMessageLengths(QUIC_TLS_MESSAGE_SERVER_HANDSHAKE) + FormatLength)
        SHStores == ServerHandshakeStores(MessageLength2, T.LocalTP, SC.FormatBuffer)
        Keys0 == IF P.EarlyDataAccepted
                 THEN [S2.ReadKeys EXCEPT !["0-RTT"] = QuicStubAllocKey("0-RTT")]
                 ELSE S2.ReadKeys
        S3 == [S2 EXCEPT
                 !.ReadKey = "Handshake",
                 !.ReadKeys = [Keys0 EXCEPT !["Handshake"] = QuicStubAllocKey("Handshake")],
                 !.WriteKey = "1-RTT",
                 !.WriteKeys = [S2.WriteKeys EXCEPT
                                  !["Handshake"] = QuicStubAllocKey("Handshake"),
                                  !["1-RTT"] = QuicStubAllocKey("1-RTT")],
                 !.Buffer = ApplyStores(S2.Buffer, S2.BufferLength, SHStores),
                 !.BufferLength = U16(S2.BufferLength + MessageLength2),
                 !.BufferTotalLength = S2.BufferTotalLength + MessageLength2,
                 !.BufferOffset1Rtt = S2.BufferTotalLength + MessageLength2]
        E2 == Emission(QUIC_TLS_MESSAGE_SERVER_HANDSHAKE, S2.BufferLength,
                       MessageLength2,
                       << QUIC_TLS_MESSAGE_SERVER_HANDSHAKE >>
                           \o TlsWriteUint24(MessageLength2 - 4))
    IN  IF P.Abort THEN [O1 EXCEPT !.Abort = TRUE]
        ELSE IF MaxServerMessageLength < MinMessageLengths(QUIC_TLS_MESSAGE_SERVER_INITIAL)
        THEN [O1 EXCEPT !.Flags = {"Error"}]
        ELSE IF T.SecConfig = NullPtr THEN [O1 EXCEPT !.Abort = TRUE]
        ELSE IF ~Env.CertSelect
        THEN [O1 EXCEPT !.Flags = {"Error"}]
        ELSE IF MaxServerMessageLength2
                  < MinMessageLengths(QUIC_TLS_MESSAGE_SERVER_HANDSHAKE) + FormatLength
        THEN [O2 EXCEPT !.Flags = {"Error"}]
        ELSE [O2 EXCEPT
                !.T = [T1 EXCEPT !.LastMessageType = QUIC_TLS_MESSAGE_SERVER_HANDSHAKE],
                !.S = S3,
                !.Flags = (IF P.EarlyDataAccepted THEN {"EarlyDataAccept"} ELSE {})
                            \cup {"ReadKeyUpdated", "WriteKeyUpdated", "Data"},
                !.Emitted = << E1, E2 >>,
                !.Allocs = (IF P.EarlyDataAccepted
                            THEN << << "Read", "0-RTT" >> >> ELSE << >>)
                           \o << << "Read", "Handshake" >>,
                                 << "Write", "Handshake" >>,
                                 << "Write", "1-RTT" >> >>,
                !.OOBWrite = O2.OOBWrite
                    \/ StoresEnd(S2.BufferLength, SHStores) > S.BufferAllocLength,
                !.Drain = U16(U16(TlsReadUint24(In, 1)) + 4)]

\* ---------------------------------------------------------------------------
\* QuicTlsServerProcess, case QUIC_TLS_MESSAGE_SERVER_HANDSHAKE
\* ---------------------------------------------------------------------------
TicketStores ==
    LET MessageLength == MinMessageLengths(QUIC_TLS_MESSAGE_TICKET)
    IN  << << 1, TlsWriteUint24(MessageLength - 4) >>,
           << 0, << QUIC_TLS_MESSAGE_TICKET >> >>,
           << 4, << 1 >> >> >>

ServerProcessServerHandshake_KeyBeforeCheck(T, S, SC, In, Env) ==
    [Outcome(T, [S EXCEPT !.ReadKey = "1-RTT",
                          !.ReadKeys["1-RTT"] = QuicStubAllocKey("1-RTT")], SC)
        EXCEPT !.Flags = {"Error"},
               !.Allocs = << << "Read", "1-RTT" >> >>]

ServerProcessServerHandshake(T, S, SC, In, Env) ==
    LET MaxServerMessageLength == U16(S.BufferAllocLength - S.BufferLength)
        O0 == Outcome(T, S, SC)
        T1 == [T EXCEPT !.SecConfig = NullPtr]
        SC1 == QuicTlsSecConfigRelease(SC)
        MessageLength == MinMessageLengths(QUIC_TLS_MESSAGE_TICKET)
        S1 == [S EXCEPT
                 !.Buffer = ApplyStores(S.Buffer, S.BufferLength, TicketStores),
                 !.BufferLength = U16(S.BufferLength + MessageLength),
                 !.BufferTotalLength = S.BufferTotalLength + MessageLength,
                 !.ReadKey = "1-RTT",
                 !.ReadKeys["1-RTT"] = QuicStubAllocKey("1-RTT")]
    IN  IF Byte(In, 0) = QUIC_TLS_MESSAGE_CLIENT_HANDSHAKE
        THEN IF Byte(In, 4) = 0
             THEN [O0 EXCEPT !.Flags = {"Error"}]
             ELSE IF T.SecConfig = NullPtr
             THEN [O0 EXCEPT !.Flags = {"Complete"}, !.Abort = TRUE]
             ELSE IF MaxServerMessageLength < MinMessageLengths(QUIC_TLS_MESSAGE_TICKET)
             THEN [O0 EXCEPT !.T = T1, !.SC = SC1,
                             !.Flags = {"Complete", "Error"}]
             ELSE [O0 EXCEPT
                     !.T = [T1 EXCEPT !.LastMessageType = QUIC_TLS_MESSAGE_TICKET],
                     !.S = S1, !.SC = SC1,
                     !.Flags = {"Complete", "Data", "ReadKeyUpdated"},
                     !.Emitted = << Emission(QUIC_TLS_MESSAGE_TICKET, S.BufferLength,
                                     MessageLength,
                                     << QUIC_TLS_MESSAGE_TICKET >>
                                         \o TlsWriteUint24(MessageLength - 4)) >>,
                     !.Allocs = << << "Read", "1-RTT" >> >>,
                     !.OOBWrite = StoresEnd(S.BufferLength, TicketStores)
                                      > S.BufferAllocLength,
                     !.Drain = U16(U16(TlsReadUint24(In, 1)) + 4)]
        ELSE [O0 EXCEPT !.Flags = {"Error"}]

QuicTlsServerProcess_AcceptsAfterTicket(T, S, SC, In, Env) ==
    CASE T.LastMessageType = QUIC_TLS_MESSAGE_INVALID ->
           ServerProcessInvalid(T, S, SC, In, Env)
      [] OTHER -> ServerProcessServerHandshake(T, S, SC, In, Env)

QuicTlsServerProcess(T, S, SC, In, Env) ==
    CASE T.LastMessageType = QUIC_TLS_MESSAGE_INVALID ->
           ServerProcessInvalid(T, S, SC, In, Env)
      [] T.LastMessageType = QUIC_TLS_MESSAGE_SERVER_HANDSHAKE ->
           ServerProcessServerHandshake(T, S, SC, In, Env)
      [] OTHER -> [Outcome(T, S, SC) EXCEPT !.Flags = {"Error"}]

\* ---------------------------------------------------------------------------
\* QuicTlsClientProcess, case QUIC_TLS_MESSAGE_CLIENT_INITIAL
\* ---------------------------------------------------------------------------
ClientHandshakeStores ==
    LET MessageLength == MinMessageLengths(QUIC_TLS_MESSAGE_CLIENT_HANDSHAKE)
    IN  << << 1, TlsWriteUint24(MessageLength - 4) >>,
           << 0, << QUIC_TLS_MESSAGE_CLIENT_HANDSHAKE >> >>,
           << 4, << 1 >> >> >>

\* SERVER_INITIAL.EarlyDataAccepted is the second bit of the body byte
EarlyDataAcceptedBit(In) == (Byte(In, 4) \div 2) % 2 = 1

ClientOnServerInitial(T, S, SC, In) ==
    LET Accepted == EarlyDataAcceptedBit(In)
        S1 == [S EXCEPT
                 !.EarlyDataAccepted =
                     IF S.EarlyDataAttempted THEN Accepted ELSE @,
                 !.BufferOffsetHandshake = S.BufferTotalLength,
                 !.ReadKey = "Handshake",
                 !.ReadKeys["Handshake"] = QuicStubAllocKey("Handshake"),
                 !.WriteKey = "Handshake",
                 !.WriteKeys["Handshake"] = QuicStubAllocKey("Handshake")]
    IN  [Outcome(T, S1, SC) EXCEPT
           !.Flags = (IF S.EarlyDataAttempted
                      THEN (IF Accepted THEN {"EarlyDataAccept"}
                                        ELSE {"EarlyDataReject"})
                      ELSE {})
                     \cup {"ReadKeyUpdated", "WriteKeyUpdated"},
           !.Allocs = << << "Read", "Handshake" >>, << "Write", "Handshake" >> >>,
           !.Drain = U16(U16(TlsReadUint24(In, 1)) + 4)]

ClientOnServerHandshake_CompleteFirst(T, S, SC, In, Env) ==
    [Outcome(T, [S EXCEPT !.HandshakeComplete = TRUE], SC)
        EXCEPT !.Flags = {"Complete", "Error"}]

ClientOnServerHandshake(T, S, SC, In, Env) ==
    LET MaxClientMessageLength == U16(S.BufferAllocLength - S.BufferLength)
        QuicTPLength == Byte(In, 4)
        \* native uint16_t, low byte first
        CertificateLength == Byte(In, 5 + MAX_PARAM_LENGTH)
                             + 256 * Byte(In, 5 + MAX_PARAM_LENGTH + 1)
        O0 == [Outcome(T, S, SC) EXCEPT
                 !.TPDelivered = << ReadBytes(In, 5, QuicTPLength) >>,
                 !.OOBRead = 5 + QuicTPLength > In.Length]
        O1 == [O0 EXCEPT !.OOBRead = @ \/ 5 + MAX_PARAM_LENGTH + 2
                                          + CertificateLength > In.Length]
        S1 == [S EXCEPT !.HandshakeComplete = TRUE]
        MessageLength == MinMessageLengths(QUIC_TLS_MESSAGE_CLIENT_HANDSHAKE)
        S2 == [S1 EXCEPT
                 !.Buffer = ApplyStores(S.Buffer, S.BufferLength, ClientHandshakeStores),
                 !.BufferLength = U16(S.BufferLength + MessageLength),
                 !.BufferTotalLength = S.BufferTotalLength + MessageLength,
                 !.BufferOffset1Rtt = S.BufferTotalLength + MessageLength,
                 !.ReadKey = "1-RTT",
                 !.ReadKeys["1-RTT"] = QuicStubAllocKey("1-RTT"),
                 !.WriteKey = "1-RTT",
                 !.WriteKeys["1-RTT"] = QuicStubAllocKey("1-RTT")]
        Validated == [IF SC.DisableCertValidation THEN O0 ELSE O1
                        EXCEPT !.S = S1]
    IN  IF T.SecConfig = NullPtr THEN [O0 EXCEPT !.Abort = TRUE]
        ELSE IF ~SC.DisableCertValidation /\ ~Env.ParseOk
        THEN [O1 EXCEPT !.Flags = {"Error"}]
        ELSE IF ~SC.DisableCertValidation /\ ~Env.ValidateOk
        THEN [O1 EXCEPT !.Flags = {"Error"}]
        ELSE IF MaxClientMessageLength
                  < MinMessageLengths(QUIC_TLS_MESSAGE_CLIENT_HANDSHAKE)
        THEN [Validated EXCEPT !.Flags = {"Complete", "Error"}]
        ELSE [Validated EXCEPT
                !.T = [T EXCEPT !.LastMessageType = QUIC_TLS_MESSAGE_CLIENT_HANDSHAKE],
                !.S = S2,
                !.Flags = {"Complete", "Data", "ReadKeyUpdated", "WriteKeyUpdated"},
                !.Emitted = << Emission(QUIC_TLS_MESSAGE_CLIENT_HANDSHAKE,
                                S.BufferLength, MessageLength,
                                << QUIC_TLS_MESSAGE_CLIENT_HANDSHAKE >>
                                    \o TlsWriteUint24(MessageLength - 4)) >>,
                !.Allocs = << << "Read", "1-RTT" >>, << "Write", "1-RTT" >> >>,
                !.OOBWrite = StoresEnd(S.BufferLength, ClientHandshakeStores)
                                 > S.BufferAllocLength,
                !.Drain = U16(U16(TlsReadUint24(In, 1)) + 4)]

ClientProcessClientInitial_ErrorDrains(T, S, SC, In, Env) ==
    IF Byte(In, 0) = QUIC_TLS_MESSAGE_SERVER_INITIAL
    THEN ClientOnServerInitial(T, S, SC, In)
    ELSE IF Byte(In, 0) = QUIC_TLS_MESSAGE_SERVER_HANDSHAKE
    THEN ClientOnServerHandshake(T, S, SC, In, Env)
    ELSE [Outcome(T, S, SC) EXCEPT
            !.Flags = {"Error"},
            !.Drain = U16(U16(TlsReadUint24(In, 1)) + 4)]

ClientProcessClientInitial(T, S, SC, In, Env) ==
    IF Byte(In, 0) = QUIC_TLS_MESSAGE_SERVER_INITIAL
    THEN ClientOnServerInitial(T, S, SC, In)
    ELSE IF Byte(In, 0) = QUIC_TLS_MESSAGE_SERVER_HANDSHAKE
    THEN ClientOnServerHandshake(T, S, SC, In, Env)
    ELSE [Outcome(T, S, SC) EXCEPT !.Flags = {"Error"}]

\* ---------------------------------------------------------------------------
\* QuicTlsClientProcess, case QUIC_TLS_MESSAGE_CLIENT_HANDSHAKE
\* ---------------------------------------------------------------------------
ClientProcessClientHandshake_Restarts(T, S, SC, In) ==
    IF Byte(In, 0) # QUIC_TLS_MESSAGE_TICKET
    THEN [Outcome(T, S, SC) EXCEPT !.Flags = {"Error"}]
    ELSE [Outcome([T EXCEPT !.TicketReady = TRUE,
                            !.LastMessageType = QUIC_TLS_MESSAGE_INVALID], S, SC)
            EXCEPT !.Flags = {"Ticket"},
                   !.Drain = U16(U16(TlsReadUint24(In, 1)) + 4)]

ClientProcessClientHandshake_DropsTicket(T, S, SC, In) ==
    IF Byte(In, 0) # QUIC_TLS_MESSAGE_TICKET
    THEN [Outcome(T, S, SC) EXCEPT !.Flags = {"Error"}]
    ELSE [Outcome(T, S, SC) EXCEPT
            !.Flags = {"Ticket"},
            !.Drain = U16(U16(TlsReadUint24(In, 1)) + 4)]

ClientProcessClientHandshake(T, S, SC, In) ==
    IF Byte(In, 0) # QUIC_TLS_MESSAGE_TICKET
    THEN [Outcome(T, S, SC) EXCEPT !.Flags = {"Error"}]
    ELSE [Outcome([T EXCEPT !.TicketReady = TRUE], S, SC) EXCEPT
            !.Flags = {"Ticket"},
            !.Drain = U16(U16(TlsReadUint24(In, 1)) + 4)]

QuicTlsClientProcess(T, S, SC, In, Env) ==
    CASE T.LastMessageType = QUIC_TLS_MESSAGE_INVALID ->
           ClientProcessInvalid(T, S, SC)
      [] T.LastMessageType = QUIC_TLS_MESSAGE_CLIENT_INITIAL ->
           ClientProcessClientInitial(T, S, SC, In, Env)
      [] T.LastMessageType = QUIC_TLS_MESSAGE_CLIENT_HANDSHAKE ->
           ClientProcessClientHandshake(T, S, SC, In)
      [] OTHER -> [Outcome(T, S, SC) EXCEPT !.Flags = {"Error"}]

\* ---------------------------------------------------------------------------
\* QuicTlsHasValidMessageToProcess, QuicTlsProcessData, QuicTlsReset,
\* QuicTlsReadTicket
\* ---------------------------------------------------------------------------
QuicTlsHasValidMessageToProcess_HeaderOnly(T, In) ==
    IF ~T.IsServer /\ T.LastMessageType = QUIC_TLS_MESSAGE_INVALID
                   /\ In.Length = 0
    THEN TRUE
    ELSE In.Length >= 7

QuicTlsHasValidMessageToProcess(T, In) ==
    IF ~T.IsServer /\ T.LastMessageType = QUIC_TLS_MESSAGE_INVALID
                   /\ In.Length = 0
    THEN TRUE
    ELSE IF In.Length < 7 THEN FALSE
    ELSE IF In.Length < TlsReadUint24(In, 1) + 4 THEN FALSE
    ELSE TRUE

QuicTlsProcessData(T, S, SC, In, Env) ==
    IF QuicTlsHasValidMessageToProcess(T, In)
    THEN IF T.IsServer THEN QuicTlsServerProcess(T, S, SC, In, Env)
                       ELSE QuicTlsClientProcess(T, S, SC, In, Env)
    ELSE Outcome(T, S, SC)

QuicTlsReset_ClearsTicket(T) ==
    [T EXCEPT !.LastMessageType = QUIC_TLS_MESSAGE_INVALID,
              !.TicketReady = FALSE]

QuicTlsReset(T) == [T EXCEPT !.LastMessageType = QUIC_TLS_MESSAGE_INVALID]

QuicTlsReadTicket_IgnoresReady(T, BufferLength, HasBuffer) ==
    IF BufferLength = 0 \/ ~HasBuffer
    THEN [Status |-> "BUFFER_TOO_SMALL", Length |-> BufferLength, Bytes |-> << >>]
    ELSE [Status |-> "SUCCESS", Length |-> 1, Bytes |-> << 255 >>]

\* the status and the bytes stored for a destination of BufferLength bytes
QuicTlsReadTicket(T, BufferLength, HasBuffer) ==
    IF ~T.TicketReady
    THEN [Status |-> "INVALID_STATE", Length |-> BufferLength, Bytes |-> << >>]
    ELSE IF BufferLength = 0 \/ ~HasBuffer
    THEN [Status |-> "BUFFER_TOO_SMALL", Length |-> BufferLength, Bytes |-> << >>]
    ELSE [Status |-> "SUCCESS", Length |-> 1, Bytes |-> << 255 >>]

\* ---------------------------------------------------------------------------
\* Configurations and contexts after QuicTlsInitialize
\* ---------------------------------------------------------------------------
LocalTPs == {<< >>, [i \in 1..TPLength |-> 16 + i]}
FormatBuffers == {<< >>, [i \in 1..CertChainLength |-> 192 + (i % 8)]}

ServerAllocLengths == {7, 100, 330, 340}
ClientAllocLengths == {16, 64, 128}
ReadBufferLengths == {0, 2}

NewTls(IsServer, SNI, LocalTP) ==
    [IsServer |-> IsServer, TicketReady |-> FALSE,
     LastMessageType |-> QUIC_TLS_MESSAGE_INVALID,
     SecConfig |-> SecConfigPtr, SNI |-> SNI,
     LocalTP |-> LocalTP, TlsSession |-> 1]

NewState(BufferAllocLength) ==
    [Buffer |-> [i \in 1..BufferAllocLength |-> Unwritten],
     BufferLength |-> 0, BufferAllocLength |-> BufferAllocLength,
     BufferTotalLength |-> 0, BufferOffsetHandshake |-> 0,
     BufferOffset1Rtt |-> 0,
     EarlyDataAttempted |-> FALSE, EarlyDataAccepted |-> FALSE,
     HandshakeComplete |-> FALSE,
     ReadKey |-> "Initial", WriteKey |-> "Initial",
     ReadKeys |-> [e \in Epochs |-> NoKey],
     WriteKeys |-> [e \in Epochs |-> NoKey]]

\* RefCount: the creator's reference and the one QuicTlsInitialize added
NewSecConfig(DisableCertValidation, FormatBuffer) ==
    [RefCount |-> 2, Deleted |-> FALSE,
     DisableCertValidation |-> DisableCertValidation,
     FormatBuffer |-> FormatBuffer]

\* ---------------------------------------------------------------------------
\* The inputs offered to a processing call
\* ---------------------------------------------------------------------------
NoOrigin ==
    [FromClient |-> FALSE, SNI |-> NullStr, TP |-> << >>,
     EarlyDataAttempted |-> FALSE]

Input(Length, Data, Fill) ==
    [Length |-> Length, Data |-> Data, Fill |-> Fill, Origin |-> NoOrigin]

\* bytes of the output region as the peer sees them: a byte never written
\* holds whatever the region held
Materialize(Bytes) ==
    [i \in 1..Len(Bytes) |-> IF Bytes[i] = Unwritten THEN 170 ELSE Bytes[i]]

\* what the certificate collaborator answers: QuicCertSelect finds a
\* signature algorithm, QuicCertParseChain and QuicCertValidateChain succeed
AllOk == [CertSelect |-> TRUE, ParseOk |-> TRUE, ValidateOk |-> TRUE]

\* the configurations of the clients whose ClientInitial the server is offered
ClientConfigs ==
    << [SNI |-> NullStr, TP |-> << >>],
       [SNI |-> NullStr, TP |-> [i \in 1..TPLength |-> 16 + i]] >> \o
    [n \in 1..(MaxSniLength + 1) |->
        [SNI |-> Str([i \in 1..(n - 1) |-> 96 + i]),
         TP |-> IF n = 1 THEN << >> ELSE [i \in 1..TPLength |-> 16 + i]]]

\* the bytes a context has placed in its output region
Written(S) == Materialize(SubSeq(S.Buffer, 1, S.BufferLength))

\* the process state of a fresh client context with configuration c after
\* its first call, which emits ClientInitial
ClientSent(c) ==
    QuicTlsClientProcess(NewTls(FALSE, c.SNI, c.TP), NewState(256),
                         NewSecConfig(TRUE, << >>), Input(0, << >>, 0), AllOk).S

ClientFlights == [k \in 1..Len(ClientConfigs) |-> ClientSent(ClientConfigs[k])]

\* the input a server is handed when that ClientInitial arrives whole
FromClient(Sent, c) ==
    [Length |-> Sent.BufferLength, Data |-> Written(Sent), Fill |-> 0,
     Origin |-> [FromClient |-> TRUE, SNI |-> c.SNI, TP |-> c.TP,
                 EarlyDataAttempted |-> Sent.EarlyDataAttempted]]

\* a record built from stores, MessageLength bytes long
Record(MessageLength, Stores) ==
    Materialize(ApplyStores([i \in 1..MessageLength |-> Unwritten], 0, Stores))

\* Data with the three Length bytes rewritten
Redeclare(Data, Declared) == Poke(Data, 1, TlsWriteUint24(Declared))

ClientHandshakeRecord(Success) ==
    Poke(Record(8, ClientHandshakeStores), 4, << Success >>)
ServerInitialRecord(Accepted) == Record(8, ServerInitialStores(Accepted))
ServerHandshakeRecord(LocalTP, FormatBuffer) ==
    Record(MinMessageLengths(QUIC_TLS_MESSAGE_SERVER_HANDSHAKE) + Len(FormatBuffer),
           ServerHandshakeStores(
               MinMessageLengths(QUIC_TLS_MESSAGE_SERVER_HANDSHAKE) + Len(FormatBuffer),
               LocalTP, FormatBuffer))
TicketRecord == Record(8, TicketStores)

\* Plain (no server name, no transport parameters: its last extension is an
\* empty QUIC_TLS_QUIC_TP_EXT) with TPLen parameter bytes declared
LongClientInitial(Plain, TPLen) ==
    Poke(Poke(Redeclare(Plain, Len(Plain) - 4 + TPLen),
              OffsetExtListLength,
              TlsWriteUint16(Len(Plain) - OffsetExtList + TPLen)),
         Len(Plain) - 2, TlsWriteUint16(TPLen))

\* ClientInitial inputs: the flights as emitted, then variations of the
\* flight without extensions (Plain) and of the one with all of them (Sample)
ClientInitialInputs(Flights, Plain, Sample) ==
    [k \in 1..Len(Flights) |-> FromClient(Flights[k], ClientConfigs[k])] \o
    << \* one byte missing
       Input(Len(Sample) - 1, Sample, 0),
       \* a 7-byte ClientInitial: the extension list lies behind the input
       Input(7, Redeclare(Sample, 3), 0),
       Input(7, Redeclare(SubSeq(Plain, 1, 7), 3), 1),
       \* an extension type outside the closed set
       Input(Len(Plain), Poke(Plain, OffsetExtList, TlsWriteUint16(1)), 0),
       \* declared list length one less / four more than the extensions
       Input(Len(Plain), Poke(Plain, OffsetExtListLength, TlsWriteUint16(16)), 0),
       Input(Len(Plain), Poke(Plain, OffsetExtListLength, TlsWriteUint16(21)), 0),
       \* a ClientInitial of 65540 bytes: the transport-parameter extension
       \* of Plain grown to 65478 bytes
       Input(65540, LongClientInitial(Plain, 65478), 0) >>

\* the records of the other message types
OtherInputs(ClientHandshake1, ServerInitial1, Ticket) ==
    << Input(0, << >>, 0),
       Input(5, SubSeq(ClientHandshake1, 1, 5), 0),
       Input(8, ClientHandshakeRecord(0), 0),
       Input(8, ClientHandshake1, 0),
       Input(65536, Redeclare(ClientHandshake1, 65532), 0),
       Input(8, ServerInitialRecord(FALSE), 0),
       Input(8, ServerInitial1, 0),
       Input(16777219, Redeclare(ServerInitial1, 16777215), 0),
       Input(MinMessageLengths(QUIC_TLS_MESSAGE_SERVER_HANDSHAKE),
             ServerHandshakeRecord(<< >>, << >>), 0),
       Input(MinMessageLengths(QUIC_TLS_MESSAGE_SERVER_HANDSHAKE) + CertChainLength,
             ServerHandshakeRecord([i \in 1..TPLength |-> 32 + i],
                                   [i \in 1..CertChainLength |-> 192 + (i % 8)]), 0),
       \* a 7-byte ServerHandshake naming two parameter bytes
       Input(7, << QUIC_TLS_MESSAGE_SERVER_HANDSHAKE, 0, 0, 3, 2, 9, 9 >>, 1),
       Input(8, Ticket, 0),
       Input(65540, Redeclare(Ticket, 65536), 0),
       Input(8, << QUIC_TLS_MESSAGE_INVALID, 0, 0, 4, 1, 0, 0, 0 >>, 0),
       Input(8, << QUIC_TLS_MESSAGE_MAX, 0, 0, 4, 1, 0, 0, 0 >>, 0),
       \* declared length beyond the bytes present
       Input(8, << QUIC_TLS_MESSAGE_TICKET, 0, 0, 5, 1, 0, 0, 0 >>, 0) >>

FlightInputs(Flights) ==
    ClientInitialInputs(Flights, Written(Flights[1]),
                        Written(Flights[Len(Flights)]))

InputTable ==
    FlightInputs(ClientFlights) \o
    OtherInputs(ClientHandshakeRecord(1), ServerInitialRecord(TRUE), TicketRecord)

\* the inputs with their position in the table
Indexed(Table) == {[Id |-> i, In |-> Table[i]] : i \in 1..Len(Table)}

Envs ==
    {AllOk, [AllOk EXCEPT !.CertSelect = FALSE],
     [AllOk EXCEPT !.ParseOk = FALSE], [AllOk EXCEPT !.ValidateOk = FALSE]}

\* the answers that can differ in a call: those of the collaborator the call
\* consults
Consulted(T, In) ==
    IF T.IsServer /\ T.LastMessageType = QUIC_TLS_MESSAGE_INVALID
    THEN {e \in Envs : e.ParseOk /\ e.ValidateOk}
    ELSE IF /\ ~T.IsServer
            /\ T.LastMessageType = QUIC_TLS_MESSAGE_CLIENT_INITIAL
            /\ Byte(In, 0) = QUIC_TLS_MESSAGE_SERVER_HANDSHAKE
    THEN {e \in Envs : e.CertSelect}
    ELSE {AllOk}

\* client contexts: every configuration with the largest output region, the
\* first and the last configuration with the smaller ones
ClientSetups ==
    {c \in [Alloc : ClientAllocLengths, Config : 1..Len(ClientConfigs),
            Disable : BOOLEAN] :
        \/ \A a \in ClientAllocLengths : a <= c.Alloc
        \/ ~c.Disable /\ c.Config \in {1, Len(ClientConfigs)}}

\* ---------------------------------------------------------------------------
\* The state machine
\* ---------------------------------------------------------------------------
NoCall ==
    [Op |-> "None", InId |-> 0, Env |-> AllOk, Flags |-> {}, Drain |-> 0,
     TPDelivered |-> << >>, Emitted |-> << >>, Allocs |-> << >>,
     OOBRead |-> FALSE, OOBWrite |-> FALSE, Abort |-> FALSE,
     Status |-> "NONE", OutLength |-> 0, OutBytes |-> << >>,
     DestLength |-> 0, HasDest |-> FALSE,
     OldKey |-> NoKey, NewKey |-> NoKey]

Init ==
    /\ \/ \E a \in ServerAllocLengths, tp \in LocalTPs, fb \in FormatBuffers :
            /\ Tls = NewTls(TRUE, NullStr, tp)
            /\ State = NewState(a)
            /\ SecConfig = NewSecConfig(FALSE, fb)
       \/ \E c \in ClientSetups :
            /\ Tls = NewTls(FALSE, ClientConfigs[c.Config].SNI,
                            ClientConfigs[c.Config].TP)
            /\ State = NewState(c.Alloc)
            /\ SecConfig = NewSecConfig(c.Disable, << >>)
       \/ \E a \in ClientAllocLengths :
            /\ \A b \in ClientAllocLengths : b <= a
            /\ Tls = [NewTls(FALSE, NullStr, << >>) EXCEPT !.TlsSession = 2]
            /\ State = NewState(a)
            /\ SecConfig = NewSecConfig(TRUE, << >>)
    /\ Call = NoCall
    /\ aborted = FALSE
    /\ ErrorSeen = FALSE
    /\ Refs = << >>
    /\ Exchange = << >>
    /\ Listener = << >>

\* what a processing call leaves behind; an access outside a region may end
\* the process or go unnoticed
Returned(i, Env, r, crash) ==
    /\ Tls' = r.T
    /\ State' = r.S
    /\ SecConfig' = r.SC
    /\ aborted' = (r.Abort \/ crash)
    /\ ErrorSeen' = (ErrorSeen \/ "Error" \in r.Flags)
    /\ Call' = [NoCall EXCEPT
                  !.Op = "ProcessData", !.InId = i, !.Env = Env,
                  !.Flags = r.Flags, !.Drain = r.Drain,
                  !.TPDelivered = r.TPDelivered,
                  !.Emitted = r.Emitted, !.Allocs = r.Allocs,
                  !.OOBRead = r.OOBRead, !.OOBWrite = r.OOBWrite,
                  !.Abort = (r.Abort \/ crash)]
    /\ UNCHANGED << Refs, Exchange, Listener >>

\* QuicTlsProcessData on input i.  The caller keeps BufferLength below
\* BufferAllocLength (asserted by both role functions).
ProcessData(i, In, Env) ==
    /\ ~aborted
    /\ State.BufferLength < State.BufferAllocLength
    /\ Env \in Consulted(Tls, In)
    /\ \E r \in {QuicTlsProcessData(Tls, State, SecConfig, In, Env)} :
       \E crash \in IF r.OOBRead \/ r.OOBWrite THEN BOOLEAN ELSE {FALSE} :
           Returned(i, Env, r, crash)

\* QuicTlsReset; QUIC_DBG_ASSERT(TlsContext->IsServer == FALSE)
Reset ==
    /\ ~aborted
    /\ ~Tls.IsServer
    /\ Tls' = QuicTlsReset(Tls)
    /\ Call' = [NoCall EXCEPT !.Op = "Reset"]
    /\ UNCHANGED << State, SecConfig, aborted, ErrorSeen, Refs, Exchange,
                    Listener >>

\* QuicTlsReadTicket with a destination of BufferLength bytes, or none
ReadTicket(BufferLength, HasBuffer) ==
    /\ ~aborted
    /\ \E r \in {QuicTlsReadTicket(Tls, BufferLength, HasBuffer)} :
           Call' = [NoCall EXCEPT !.Op = "ReadTicket",
                                  !.DestLength = BufferLength,
                                  !.HasDest = HasBuffer,
                                  !.Status = r.Status, !.OutLength = r.Length,
                                  !.OutBytes = r.Bytes]
    /\ UNCHANGED << Tls, State, SecConfig, aborted, ErrorSeen, Refs, Exchange,
                    Listener >>

\* the keys QuicPacketKeyCreateInitial hands out
QuicPacketKeyCreateInitial == QuicStubAllocKey("Initial")

\* QuicPacketKeyUpdate on the read or the write key the process state holds
\* for an epoch (no key if none was installed; the Initial keys are those
\* of QuicPacketKeyCreateInitial)
KeyUpdate(e, Read) ==
    /\ ~aborted
    /\ \E OldKey \in {IF e = "Initial" THEN QuicPacketKeyCreateInitial
                       ELSE IF Read THEN State.ReadKeys[e]
                       ELSE State.WriteKeys[e]} :
       \E r \in {QuicPacketKeyUpdate(OldKey)} :
           Call' = [NoCall EXCEPT !.Op = "KeyUpdate", !.OldKey = OldKey,
                                  !.Status = r.Status, !.NewKey = r.NewKey]
    /\ UNCHANGED << Tls, State, SecConfig, aborted, ErrorSeen, Refs, Exchange,
                    Listener >>

Next ==
    \/ \E p \in Indexed(InputTable), Env \in Envs :
          ProcessData(p.Id, p.In, Env)
    \/ Reset
    \/ \E n \in ReadBufferLengths, b \in BOOLEAN : ReadTicket(n, b)

Spec == Init /\ [][Next]_vars

\* handshake sequences with key updates on the keys they install
KeyNext ==
    \/ \E p \in Indexed(InputTable), Env \in Envs :
          ProcessData(p.Id, p.In, Env)
    \/ Reset
    \/ \E e \in Epochs, Read \in BOOLEAN : KeyUpdate(e, Read)

KeySpec == Init /\ [][KeyNext]_vars

\* ---------------------------------------------------------------------------
\* Threads sharing one security config: each holder adds and releases
\* references of its own.  Refs[h] is the number of references holder h
\* owns, where it stands in QuicTlsSecConfigRelease and how often it has run
\* QuicTlsSecConfigDelete.
\* ---------------------------------------------------------------------------
NHolders == 4
MaxRefs == 6

Holders == 1..NHolders

RECURSIVE OwnedUpTo(_, _)
OwnedUpTo(R, n) == IF n = 0 THEN 0 ELSE R[n].Owned + OwnedUpTo(R, n - 1)
Outstanding(R) == OwnedUpTo(R, NHolders)

RECURSIVE DeletesUpTo(_, _)
DeletesUpTo(R, n) == IF n = 0 THEN 0 ELSE R[n].Deletes + DeletesUpTo(R, n - 1)

\* the creator (holder 1) and the context QuicTlsInitialize made (holder 2)
\* own one reference each
RefInit ==
    /\ Tls = NewTls(TRUE, NullStr, << >>)
    /\ State = NewState(0)
    /\ SecConfig = NewSecConfig(FALSE, << >>)
    /\ Call = NoCall
    /\ aborted = FALSE
    /\ ErrorSeen = FALSE
    /\ Refs = [h \in Holders |->
                 [Owned |-> IF h <= 2 THEN 1 ELSE 0, pc |-> "idle", Deletes |-> 0]]
    /\ Exchange = << >>
    /\ Listener = << >>

\* QuicTlsSecConfigAddRef by holder h, on a pointer some holder of a
\* reference let it have
AddRef(h) ==
    /\ Refs[h].pc = "idle"
    /\ \E g \in Holders : Refs[g].Owned > 0
    /\ Outstanding(Refs) < MaxRefs
    /\ SecConfig' = InterlockedIncrement(SecConfig)
    /\ Refs' = [Refs EXCEPT ![h].Owned = @ + 1]
    /\ UNCHANGED << Tls, State, Call, aborted, ErrorSeen, Exchange, Listener >>

\* QuicTlsSecConfigRelease by holder h, up to the test of the decremented
\* count
ReleaseRef(h) ==
    /\ Refs[h].pc = "idle"
    /\ Refs[h].Owned > 0
    /\ SecConfig' = InterlockedDecrement(SecConfig)
    /\ Refs' = [Refs EXCEPT ![h].Owned = @ - 1,
                            ![h].pc = IF SecConfig'.RefCount = 0 THEN "delete"
                                                                 ELSE "idle"]
    /\ UNCHANGED << Tls, State, Call, aborted, ErrorSeen, Exchange, Listener >>

\* the call of QuicTlsSecConfigDelete that ends the release
DeleteConfig(h) ==
    /\ Refs[h].pc = "delete"
    /\ SecConfig' = QuicTlsSecConfigDelete(SecConfig)
    /\ Refs' = [Refs EXCEPT ![h].pc = "idle", ![h].Deletes = @ + 1]
    /\ UNCHANGED << Tls, State, Call, aborted, ErrorSeen, Exchange, Listener >>

RefNext == \E h \in Holders : AddRef(h) \/ ReleaseRef(h) \/ DeleteConfig(h)

RefSpec == RefInit /\ [][RefNext]_vars

\* ---------------------------------------------------------------------------
\* One client and one server exchanging what they emit.  Tls, State and
\* SecConfig are the client's; Exchange holds the server's context, the
\* answers of the certificate collaborator in this run, and for each
\* direction the bytes emitted but not yet arrived (Sent) and the bytes
\* arrived but not yet consumed (Arrived).  The caller of a context calls
\* QuicTlsProcessData when bytes have arrived, and again while a call
\* consumed a record and bytes remain; it stops calling after Error.
\* ---------------------------------------------------------------------------
MaxSplits == 2

\* lengths of the pieces a flight can arrive in, short of all of it
ChunkLengths == {5, 8}

NoBytes == [Sent |-> << >>, Arrived |-> << >>]

\* clients of the exchange: without and with server name and parameters
ExchangeClients ==
    [Alloc : ClientAllocLengths, Config : {1, Len(ClientConfigs)},
     Disable : BOOLEAN]

ExchangeInit ==
    /\ \E c \in ExchangeClients, a \in ServerAllocLengths, tp \in LocalTPs,
          fb \in FormatBuffers, e \in Envs :
          /\ Tls = NewTls(FALSE, ClientConfigs[c.Config].SNI,
                          ClientConfigs[c.Config].TP)
          /\ State = NewState(c.Alloc)
          /\ SecConfig = NewSecConfig(c.Disable, << >>)
          /\ Exchange =
                [Server |-> [Tls |-> NewTls(TRUE, NullStr, tp),
                             State |-> NewState(a),
                             SecConfig |-> NewSecConfig(FALSE, fb)],
                 Env |-> e,
                 ToServer |-> NoBytes, ToClient |-> NoBytes,
                 Calls |-> 0, Splits |-> 0,
                 ClientDue |-> TRUE, ServerDue |-> FALSE,
                 ClientStopped |-> FALSE, ServerStopped |-> FALSE,
                 ClientComplete |-> FALSE, ServerComplete |-> FALSE]
    /\ Call = NoCall
    /\ aborted = FALSE
    /\ ErrorSeen = FALSE
    /\ Refs = << >>
    /\ Listener = << >>

\* the bytes a call appended to the output region
Produced(S, S2) ==
    Materialize(SubSeq(S2.Buffer, S.BufferLength + 1,
                       Min(S2.BufferLength, S2.BufferAllocLength)))

\* what the call says of itself
Results(Op, r, crash) ==
    [NoCall EXCEPT !.Op = Op, !.Flags = r.Flags, !.Drain = r.Drain,
                   !.TPDelivered = r.TPDelivered,
                   !.Emitted = r.Emitted, !.Allocs = r.Allocs,
                   !.OOBRead = r.OOBRead, !.OOBWrite = r.OOBWrite,
                   !.Abort = (r.Abort \/ crash)]

\* QuicTlsProcessData on the client with the bytes arrived from the server
ClientCall ==
    /\ ~aborted
    /\ Exchange.ClientDue /\ ~Exchange.ClientStopped
    /\ State.BufferLength < State.BufferAllocLength
    /\ \E Bytes \in {Exchange.ToClient.Arrived} :
       \E r \in {QuicTlsProcessData(Tls, State, SecConfig,
                                    Input(Len(Bytes), Bytes, 0), Exchange.Env)} :
       \E crash \in IF r.OOBRead \/ r.OOBWrite THEN BOOLEAN ELSE {FALSE} :
          /\ Tls' = r.T
          /\ State' = r.S
          /\ SecConfig' = r.SC
          /\ aborted' = (r.Abort \/ crash)
          /\ ErrorSeen' = (ErrorSeen \/ "Error" \in r.Flags)
          /\ Call' = Results("ClientCall", r, crash)
          /\ Exchange' =
                [Exchange EXCEPT
                   !.ToClient.Arrived = SubSeq(Bytes, r.Drain + 1, Len(Bytes)),
                   !.ToServer.Sent = @ \o Produced(State, r.S),
                   !.Calls = @ + 1,
                   !.ClientDue = r.Drain > 0 /\ r.Drain < Len(Bytes),
                   !.ClientStopped = "Error" \in r.Flags,
                   !.ClientComplete = @ \/ "Complete" \in r.Flags]
    /\ UNCHANGED << Refs, Listener >>

\* QuicTlsProcessData on the server with the bytes arrived from the client
ServerCall ==
    /\ ~aborted
    /\ Exchange.ServerDue /\ ~Exchange.ServerStopped
    /\ Exchange.Server.State.BufferLength
          < Exchange.Server.State.BufferAllocLength
    /\ \E Bytes \in {Exchange.ToServer.Arrived}, Srv \in {Exchange.Server} :
       \E r \in {QuicTlsProcessData(Srv.Tls, Srv.State, Srv.SecConfig,
                                    Input(Len(Bytes), Bytes, 0), Exchange.Env)} :
       \E crash \in IF r.OOBRead \/ r.OOBWrite THEN BOOLEAN ELSE {FALSE} :
          /\ aborted' = (r.Abort \/ crash)
          /\ ErrorSeen' = (ErrorSeen \/ "Error" \in r.Flags)
          /\ Call' = Results("ServerCall", r, crash)
          /\ Exchange' =
                [Exchange EXCEPT
                   !.Server = [Tls |-> r.T, State |-> r.S, SecConfig |-> r.SC],
                   !.ToServer.Arrived = SubSeq(Bytes, r.Drain + 1, Len(Bytes)),
                   !.ToClient.Sent = @ \o Produced(Srv.State, r.S),
                   !.Calls = @ + 1,
                   !.ServerDue = r.Drain > 0 /\ r.Drain < Len(Bytes),
                   !.ServerStopped = "Error" \in r.Flags,
                   !.ServerComplete = @ \/ "Complete" \in r.Flags]
    /\ UNCHANGED << Tls, State, SecConfig, Refs, Listener >>

\* n of the bytes in flight arrive, in order, at the server or the client
Arrive(ToServer, n) ==
    /\ UNCHANGED << Tls, State, SecConfig, Call, aborted, ErrorSeen, Refs,
                    Listener >>
    /\ IF ToServer
       THEN \E W \in {Exchange.ToServer} :
              Exchange' =
                 [Exchange EXCEPT
                    !.ToServer = [Sent |-> SubSeq(W.Sent, n + 1, Len(W.Sent)),
                                  Arrived |-> W.Arrived \o SubSeq(W.Sent, 1, n)],
                    !.ServerDue = TRUE,
                    !.Splits = IF n < Len(W.Sent) THEN @ + 1 ELSE @]
       ELSE \E W \in {Exchange.ToClient} :
              Exchange' =
                 [Exchange EXCEPT
                    !.ToClient = [Sent |-> SubSeq(W.Sent, n + 1, Len(W.Sent)),
                                  Arrived |-> W.Arrived \o SubSeq(W.Sent, 1, n)],
                    !.ClientDue = TRUE,
                    !.Splits = IF n < Len(W.Sent) THEN @ + 1 ELSE @]

InFlight(ToServer) ==
    IF ToServer THEN Exchange.ToServer.Sent ELSE Exchange.ToClient.Sent

\* a piece of what is in flight arrives
Deliver(ToServer, n) ==
    /\ ~aborted
    /\ Exchange.Splits < MaxSplits
    /\ n < Len(InFlight(ToServer))
    /\ Arrive(ToServer, n)

\* all that is in flight arrives
DeliverAll(ToServer) ==
    /\ ~aborted
    /\ InFlight(ToServer) # << >>
    /\ Arrive(ToServer, Len(InFlight(ToServer)))

ExchangeNext ==
    \/ ClientCall
    \/ ServerCall
    \/ \E d \in BOOLEAN, n \in ChunkLengths : Deliver(d, n)
    \/ \E d \in BOOLEAN : DeliverAll(d)

ExchangeSpec == ExchangeInit /\ [][ExchangeNext]_vars

\* a call is due and allowed: ENABLED <<ClientCall>>_vars and
\* ENABLED <<ServerCall>>_vars, every call adding one to Exchange.Calls
ClientCallEnabled ==
    /\ ~aborted
    /\ Exchange.ClientDue /\ ~Exchange.ClientStopped
    /\ State.BufferLength < State.BufferAllocLength

ServerCallEnabled ==
    /\ ~aborted
    /\ Exchange.ServerDue /\ ~Exchange.ServerStopped
    /\ Exchange.Server.State.BufferLength
          < Exchange.Server.State.BufferAllocLength

\* bytes in flight arrive, and a caller with bytes to hand over calls: weak
\* fairness of the deliveries and of the two calls, that of the calls
\* (WF_vars(ClientCall), WF_vars(ServerCall)) with ENABLED written out
ExchangeLive ==
    /\ ExchangeSpec
    /\ \A d \in BOOLEAN : WF_vars(DeliverAll(d))
    /\ []<>(~ClientCallEnabled) \/ []<><<ClientCall>>_vars
    /\ []<>(~ServerCallEnabled) \/ []<><<ServerCall>>_vars

\* ---------------------------------------------------------------------------
\* A listener, its teardown rundown and the security configs made under it.
\* Listener.Rundown is the QUIC_RUNDOWN_REF (the listener's own reference
\* and those acquired since), Listener.Configs the QUIC_SEC_CONFIG
\* allocations, Listener.Last what the last call did.
\* ---------------------------------------------------------------------------
MaxConfigs == 2
MaxConfigRefs == 2

ConfigSlots == 1..MaxConfigs

SecConfigFlags ==
    SUBSET {"CERTIFICATE_NULL", "CERTIFICATE_FILE", "CERTIFICATE_CONTEXT"}

NoConfig ==
    [Live |-> FALSE, Server |-> FALSE, RefCount |-> 0, Flags |-> {},
     CleanupRundown |-> FALSE]

\* QuicRundownAcquire: a reference is handed out unless the count has
\* reached zero
QuicRundownAcquire(R) ==
    IF R.RefCount = 0 THEN [Ok |-> FALSE, R |-> R]
    ELSE [Ok |-> TRUE, R |-> [R EXCEPT !.RefCount = @ + 1]]

QuicRundownRelease(R) == [R EXCEPT !.RefCount = @ - 1]

QuicTlsServerSecConfigCreate_KeepsRundown(R, Flags, Certificate, AllocOk, CertCreateOk) ==
    [Status |-> "INVALID_PARAMETER", Rundown |-> QuicRundownAcquire(R).R,
     Handled |-> 0, Config |-> NoConfig]

\* QuicTlsServerSecConfigCreate: the status, the rundown after the call, the
\* number of calls of CompletionHandler and the config handed to it.
\* Certificate tells whether the caller's handle is non-NULL, AllocOk and
\* CertCreateOk whether QUIC_ALLOC_PAGED and QuicCertCreate succeed.
QuicTlsServerSecConfigCreate(R, Flags, Certificate, AllocOk, CertCreateOk) ==
    LET A == QuicRundownAcquire(R)
        SecurityConfig == [Live |-> TRUE, Server |-> TRUE, RefCount |-> 1,
                           Flags |-> Flags, CleanupRundown |-> TRUE]
        \* Error: with SecurityConfig non-NULL
        Failed(Status) ==
            [Status |-> Status, Rundown |-> QuicRundownRelease(A.R),
             Handled |-> 0, Config |-> NoConfig]
        Format ==
            [Status |-> "SUCCESS", Rundown |-> A.R, Handled |-> 1,
             Config |-> SecurityConfig]
    IN  IF ~A.Ok
        THEN [Status |-> "INVALID_STATE", Rundown |-> R, Handled |-> 0,
              Config |-> NoConfig]
        ELSE IF ~AllocOk
        THEN [Status |-> "OUT_OF_MEMORY", Rundown |-> QuicRundownRelease(A.R),
              Handled |-> 0, Config |-> NoConfig]
        ELSE IF Flags = {"CERTIFICATE_NULL"} THEN Format
        ELSE IF "CERTIFICATE_FILE" \in Flags THEN Failed("INVALID_PARAMETER")
        ELSE IF "CERTIFICATE_CONTEXT" \in Flags
        THEN IF ~Certificate THEN Failed("INVALID_PARAMETER") ELSE Format
        ELSE IF ~CertCreateOk THEN Failed("CERT_ERROR")
        ELSE Format

\* QuicTlsClientSecConfigCreate: the config is zeroed, so it has no rundown
QuicTlsClientSecConfigCreate(AllocOk) ==
    IF ~AllocOk
    THEN [Status |-> "OUT_OF_MEMORY", Config |-> NoConfig]
    ELSE [Status |-> "SUCCESS",
          Config |-> [Live |-> TRUE, Server |-> FALSE, RefCount |-> 1,
                      Flags |-> {}, CleanupRundown |-> FALSE]]

\* the rundown after QuicTlsSecConfigDelete of config C
RundownAfterDelete(R, C) ==
    IF C.CleanupRundown THEN QuicRundownRelease(R) ELSE R

NoLast ==
    [Op |-> "None", Status |-> "NONE", Handled |-> 0, Slot |-> 0,
     Deleted |-> FALSE]

ListenerInit ==
    /\ Tls = NewTls(TRUE, NullStr, << >>)
    /\ State = NewState(0)
    /\ SecConfig = NewSecConfig(FALSE, << >>)
    /\ Call = NoCall
    /\ aborted = FALSE
    /\ ErrorSeen = FALSE
    /\ Refs = << >>
    /\ Exchange = << >>
    /\ Listener = [Rundown |-> [RefCount |-> 1, Waiting |-> FALSE],
                   Configs |-> [i \in ConfigSlots |-> NoConfig],
                   Last |-> NoLast]

FreeSlots == {i \in ConfigSlots : ~Listener.Configs[i].Live}

\* where a new allocation goes
NewSlot == CHOOSE i \in FreeSlots : \A j \in FreeSlots : i <= j

ServerSecConfigCreate(Flags, Certificate, AllocOk, CertCreateOk) ==
    /\ FreeSlots # {}
    /\ \E r \in {QuicTlsServerSecConfigCreate(Listener.Rundown, Flags,
                                              Certificate, AllocOk, CertCreateOk)} :
          Listener' =
             [Listener EXCEPT
                !.Rundown = r.Rundown,
                !.Configs = IF r.Config.Live
                            THEN [@ EXCEPT ![NewSlot] = r.Config] ELSE @,
                !.Last = [NoLast EXCEPT !.Op = "ServerCreate",
                                        !.Status = r.Status,
                                        !.Handled = r.Handled,
                                        !.Slot = IF r.Config.Live THEN NewSlot ELSE 0]]
    /\ UNCHANGED << Tls, State, SecConfig, Call, aborted, ErrorSeen, Refs,
                    Exchange >>

ClientSecConfigCreate(AllocOk) ==
    /\ FreeSlots # {}
    /\ \E r \in {QuicTlsClientSecConfigCreate(AllocOk)} :
          Listener' =
             [Listener EXCEPT
                !.Configs = IF r.Config.Live
                            THEN [@ EXCEPT ![NewSlot] = r.Config] ELSE @,
                !.Last = [NoLast EXCEPT !.Op = "ClientCreate",
                                        !.Status = r.Status,
                                        !.Slot = IF r.Config.Live THEN NewSlot ELSE 0]]
    /\ UNCHANGED << Tls, State, SecConfig, Call, aborted, ErrorSeen, Refs,
                    Exchange >>

\* QuicTlsSecConfigAddRef on config i
ConfigAddRef(i) ==
    /\ Listener.Configs[i].Live
    /\ Listener.Configs[i].RefCount < MaxConfigRefs
    /\ Listener' = [Listener EXCEPT
                      !.Configs[i] = InterlockedIncrement(@),
                      !.Last = [NoLast EXCEPT !.Op = "AddRef", !.Slot = i]]
    /\ UNCHANGED << Tls, State, SecConfig, Call, aborted, ErrorSeen, Refs,
                    Exchange >>

\* QuicTlsSecConfigRelease on config i, with QuicTlsSecConfigDelete when the
\* count reaches zero
ConfigRelease(i) ==
    /\ Listener.Configs[i].Live
    /\ \E C \in {InterlockedDecrement(Listener.Configs[i])} :
          Listener' =
             [Listener EXCEPT
                !.Configs[i] = IF C.RefCount = 0 THEN NoConfig ELSE C,
                !.Rundown = IF C.RefCount = 0
                            THEN RundownAfterDelete(@, C) ELSE @,
                !.Last = [NoLast EXCEPT !.Op = "Release", !.Slot = i,
                                        !.Deleted = (C.RefCount = 0)]]
    /\ UNCHANGED << Tls, State, SecConfig, Call, aborted, ErrorSeen, Refs,
                    Exchange >>

\* the listener gives up its own reference and awaits the rundown
RundownReleaseAndWait ==
    /\ ~Listener.Rundown.Waiting
    /\ Listener' = [Listener EXCEPT
                      !.Rundown = [QuicRundownRelease(@) EXCEPT !.Waiting = TRUE],
                      !.Last = [NoLast EXCEPT !.Op = "Wait"]]
    /\ UNCHANGED << Tls, State, SecConfig, Call, aborted, ErrorSeen, Refs,
                    Exchange >>

ListenerNext ==
    \/ \E Flags \in SecConfigFlags, Certificate \in BOOLEAN,
          AllocOk \in BOOLEAN, CertCreateOk \in BOOLEAN :
          ServerSecConfigCreate(Flags, Certificate, AllocOk, CertCreateOk)
    \/ \E AllocOk \in BOOLEAN : ClientSecConfigCreate(AllocOk)
    \/ \E i \in ConfigSlots : ConfigAddRef(i)
    \/ \E i \in ConfigSlots : ConfigRelease(i)
    \/ RundownReleaseAndWait

ListenerSpec == ListenerInit /\ [][ListenerNext]_vars

\* ---------------------------------------------------------------------------
\* Properties
\* ---------------------------------------------------------------------------
\* the step is a QuicTlsProcessData call; Call' tells its input and results
Processing == Call'.Op = "ProcessData"

\* the 24-bit length a record declares
Declared(In) == TlsReadUint24(In, 1)

\* the order LastMessageType runs through on each role
RoleOrder(T) ==
    IF T.IsServer
    THEN << QUIC_TLS_MESSAGE_INVALID, QUIC_TLS_MESSAGE_SERVER_HANDSHAKE,
            QUIC_TLS_MESSAGE_TICKET >>
    ELSE << QUIC_TLS_MESSAGE_INVALID, QUIC_TLS_MESSAGE_CLIENT_INITIAL,
            QUIC_TLS_MESSAGE_CLIENT_HANDSHAKE >>

\* position of LastMessageType in the order, 0 if it is not in it
Rank(T) ==
    IF \E k \in 1..3 : RoleOrder(T)[k] = T.LastMessageType
    THEN CHOOSE k \in 1..3 : RoleOrder(T)[k] = T.LastMessageType
    ELSE 0

\* C1: a QuicTlsProcessData call never moves LastMessageType to an earlier
\* value of its role's order (server: None, ServerHandshake, Ticket; client:
\* None, ClientInitial, ClientHandshake), and a call that does not report
\* Error moves it by at most one step.
C1_LastMessageTypeAdvances ==
    [][Processing =>
         /\ Rank(Tls') >= Rank(Tls)
         /\ "Error" \notin Call'.Flags => Rank(Tls') <= Rank(Tls) + 1]_vars

\* a server has walked its whole order
C1_ServerAtTicket ==
    /\ Tls.IsServer
    /\ Call.Op = "ProcessData"
    /\ Tls.LastMessageType = QUIC_TLS_MESSAGE_TICKET

\* C2: a QuicTlsProcessData call entered with BufferLength below
\* BufferAllocLength returns with BufferLength at most BufferAllocLength.
C2_BufferLengthWithinAlloc ==
    [][(Processing /\ State.BufferLength < State.BufferAllocLength)
           => State'.BufferLength <= State'.BufferAllocLength]_vars

\* the call took a peer message through the gate and returned without Error
Consumed(In) ==
    /\ QuicTlsHasValidMessageToProcess(Tls, In)
    /\ ~(~Tls.IsServer /\ Tls.LastMessageType = QUIC_TLS_MESSAGE_INVALID)
    /\ "Error" \notin Call'.Flags
    /\ ~Call'.Abort

\* C3: a call that consumes a peer message without reporting Error writes
\* back, as the count of consumed bytes, the declared length of the message
\* plus 4, and never more than the input held.
C3_DrainIsFramedLength ==
    [][Processing =>
         \A In \in {InputTable[Call'.InId]} :
            Consumed(In) => /\ Call'.Drain = Declared(In) + 4
                            /\ Call'.Drain <= In.Length]_vars

\* fewer than 7 bytes, or fewer than the record declares
ShortInput(In) == In.Length < 7 \/ In.Length < Declared(In) + 4

\* the client in state None given zero bytes
FirstClientCall(In) ==
    /\ ~Tls.IsServer
    /\ Tls.LastMessageType = QUIC_TLS_MESSAGE_INVALID
    /\ In.Length = 0

\* C4: on an input of fewer than 7 bytes, or of fewer bytes than the declared
\* length plus 4, QuicTlsProcessData returns no flags and zero consumed bytes
\* and leaves LastMessageType, TicketReady and the process state as they
\* were; the client in state None given zero bytes is the exception.
C4_NeedMoreData ==
    [][Processing =>
         \A In \in {InputTable[Call'.InId]} :
            (ShortInput(In) /\ ~FirstClientCall(In)) =>
                /\ Call'.Flags = {}
                /\ Call'.Drain = 0
                /\ Tls'.LastMessageType = Tls.LastMessageType
                /\ Tls'.TicketReady = Tls.TicketReady
                /\ State' = State]_vars

\* a context past state None was handed a record with its tail missing
C4_TailMissing ==
    /\ Call.Op = "ProcessData"
    /\ Tls.LastMessageType # QUIC_TLS_MESSAGE_INVALID
    /\ \E In \in {InputTable[Call.InId]} :
          In.Length >= 7 /\ In.Length < Declared(In) + 4

\* C5: every record is written only after the capacity left in the output
\* region was checked against its size: no store goes past BufferAllocLength,
\* every emitted record lies inside the region, and a ClientInitial that
\* does not fit is reported through Error.
C5_CapacityChecked ==
    [][Processing =>
         /\ ~Call'.OOBWrite
         /\ \A k \in 1..Len(Call'.Emitted) :
               Call'.Emitted[k].Offset + Call'.Emitted[k].MessageLength
                   <= State.BufferAllocLength
         /\ (/\ ~Tls.IsServer
             /\ Tls.LastMessageType = QUIC_TLS_MESSAGE_INVALID
             /\ ClientInitialStores(Tls).MessageLength
                    > State.BufferAllocLength - State.BufferLength)
                => "Error" \in Call'.Flags]_vars

\* C6: a server in state None handed the ClientInitial a client emitted from
\* state None holds exactly that client's server name afterwards (none if the
\* client had none), has EarlyDataAttempted at the client's value, and has
\* handed exactly the client's transport parameters to ReceiveTPCallback.
C6_ExtensionRoundTrip ==
    [][(/\ Processing
        /\ Tls.IsServer
        /\ Tls.LastMessageType = QUIC_TLS_MESSAGE_INVALID) =>
         \A In \in {InputTable[Call'.InId]} :
            In.Origin.FromClient =>
                /\ Tls'.SNI = In.Origin.SNI
                /\ State'.EarlyDataAttempted = In.Origin.EarlyDataAttempted
                /\ Call'.TPDelivered = << In.Origin.TP >>]_vars

\* C7: once TicketReady is true on a context it stays true, whatever
\* processing calls, ticket reads and resets follow.
C7_TicketReadyStays == [][Tls.TicketReady => Tls'.TicketReady]_vars

\* a client with a ticket was reset and has emitted ClientInitial again
C7_TicketKeptAcrossReset ==
    /\ Tls.TicketReady
    /\ Call.Op = "ProcessData"
    /\ Tls.LastMessageType = QUIC_TLS_MESSAGE_CLIENT_INITIAL

\* C8: after a call has reported Error no later processing call makes
\* progress: none moves LastMessageType, installs a key, emits a record or
\* signals Complete or Ticket.
C8_ErrorIsTerminal ==
    [][(ErrorSeen /\ Processing) =>
         /\ Tls'.LastMessageType = Tls.LastMessageType
         /\ Call'.Allocs = << >>
         /\ Call'.Emitted = << >>
         /\ Call'.Flags \cap {"Complete", "Ticket"} = {}]_vars

\* what the extension loop makes of the list of a ClientInitial
ParsedExtList(In) ==
    ServerParseExtList(In, OffsetExtList,
        TlsReadUint16(In, OffsetExtListLength),
        [SNI |-> NullStr, EarlyDataAttempted |-> FALSE,
         EarlyDataAccepted |-> FALSE, TPDelivered |-> << >>,
         OOBRead |-> FALSE, Abort |-> FALSE])

\* a whole ClientInitial whose extension list fills its body with extensions
\* of the closed set
WellFormedClientInitial(In, Parsed) ==
    /\ ~ShortInput(In)
    /\ Byte(In, 0) = QUIC_TLS_MESSAGE_CLIENT_INITIAL
    /\ OffsetExtList + TlsReadUint16(In, OffsetExtListLength) = Declared(In) + 4
    /\ ~Parsed.Abort
    /\ ~Parsed.OOBRead

\* the server's first flight as the call leaves it
ServerFirstFlight(In, Parsed) ==
    /\ [k \in 1..Len(Call'.Emitted) |-> Call'.Emitted[k].Type]
           = << QUIC_TLS_MESSAGE_SERVER_INITIAL,
                QUIC_TLS_MESSAGE_SERVER_HANDSHAKE >>
    /\ Call'.Flags = {"ReadKeyUpdated", "WriteKeyUpdated", "Data"}
            \cup (IF Parsed.EarlyDataAttempted THEN {"EarlyDataAccept"} ELSE {})
    /\ State'.ReadKeys["Handshake"] # NoKey
    /\ State'.WriteKeys["Handshake"] # NoKey
    /\ State'.WriteKeys["1-RTT"] # NoKey
    /\ Call'.Drain = Declared(In) + 4
    /\ Tls'.LastMessageType = QUIC_TLS_MESSAGE_SERVER_HANDSHAKE

\* C9: a server in state None that processes a well-formed ClientInitial,
\* with room for both records and a matching signature algorithm, emits
\* ServerInitial then ServerHandshake, returns exactly ReadKeyUpdated,
\* WriteKeyUpdated and Data (and EarlyDataAccept iff the list held a
\* SessionTicket extension), installs the Handshake read and write keys and
\* the 1-RTT write key, consumes the framed length of the ClientInitial and
\* leaves LastMessageType at ServerHandshake.
C9_ServerFirstFlight ==
    [][(/\ Processing
        /\ Tls.IsServer
        /\ Tls.LastMessageType = QUIC_TLS_MESSAGE_INVALID
        /\ Call'.Env.CertSelect
        /\ State.BufferAllocLength - State.BufferLength
              >= MinMessageLengths(QUIC_TLS_MESSAGE_SERVER_INITIAL)
                   + MinMessageLengths(QUIC_TLS_MESSAGE_SERVER_HANDSHAKE)
                   + Len(SecConfig.FormatBuffer)) =>
         \A In \in {InputTable[Call'.InId]} :
         \A Parsed \in {ParsedExtList(In)} :
            WellFormedClientInitial(In, Parsed) => ServerFirstFlight(In, Parsed)]_vars

\* the length the header of an emitted record declares
EmittedDeclared(e) == e.Header[2] * 65536 + e.Header[3] * 256 + e.Header[4]

\* the header of the record is where the call says it stored the record
HeaderStored(e) ==
    e.Offset + TLS_MESSAGE_HEADER_LENGTH <= State.BufferAllocLength =>
        SubSeq(State.Buffer, e.Offset + 1, e.Offset + TLS_MESSAGE_HEADER_LENGTH)
            = e.Header

StoredByte(Stores, off) ==
    LET Covering == {k \in 1..Len(Stores) :
                        /\ off >= Stores[k][1]
                        /\ off < Stores[k][1] + Len(Stores[k][2])}
    IN  IF Covering = {} THEN Unwritten
        ELSE LET k == CHOOSE c \in Covering : \A d \in Covering : d <= c
             IN  Stores[k][2][off - Stores[k][1] + 1]

StoredUint16(Stores, off) ==
    StoredByte(Stores, off) * 256 + StoredByte(Stores, off + 1)

\* the extensions stored from off up to end, each found 4 + its declared
\* length after the one before
RECURSIVE ExtensionsStored(_, _, _)
ExtensionsStored(Stores, off, end) ==
    IF off + 4 > end THEN << >>
    ELSE << [Type |-> StoredUint16(Stores, off),
             Length |-> StoredUint16(Stores, off + 2)] >>
         \o ExtensionsStored(Stores, off + 4 + StoredUint16(Stores, off + 2), end)

RECURSIVE SumOfSizes(_)
SumOfSizes(Exts) ==
    IF Exts = << >> THEN 0
    ELSE 4 + Head(Exts).Length + SumOfSizes(Tail(Exts))

\* the client in state None emits ClientInitial
EmitsClientInitial ==
    /\ Processing
    /\ ~Tls.IsServer
    /\ Tls.LastMessageType = QUIC_TLS_MESSAGE_INVALID

\* C11: the ClientInitial a client in state None emits carries, in this
\* order and once each, ServerName (iff a server name is set), ALPN,
\* SessionTicket with an empty value and QuicTransportParameters, and the
\* extension-list length it declares is the sum of 4 + declared length over
\* them (17 for no server name, a 2-byte ALPN and no transport parameters).
C11_ClientInitialExtensions ==
    [][EmitsClientInitial =>
         \A CI \in {ClientInitialStores(Tls)} :
         \A Exts \in {ExtensionsStored(CI.Stores, OffsetExtList,
                                       StoresEnd(0, CI.Stores))} :
            /\ [k \in 1..Len(Exts) |-> Exts[k].Type]
                  = (IF Tls.SNI # NullStr THEN << TlsExt_ServerName >> ELSE << >>)
                    \o << TlsExt_AppProtocolNegotiation, TlsExt_SessionTicket,
                          TlsExt_QuicTransportParameters >>
            /\ Exts[Len(Exts) - 1].Length = 0
            /\ Exts[Len(Exts)].Length = Len(Tls.LocalTP)
            /\ StoredUint16(CI.Stores, OffsetExtListLength) = SumOfSizes(Exts)
            /\ (Tls.SNI = NullStr /\ Len(Sessions[Tls.TlsSession]) = 2 /\ Tls.LocalTP = << >>)
                  => StoredUint16(CI.Stores, OffsetExtListLength) = 17]_vars

\* a whole ClientInitial, its fixed part present, whose extension list holds
\* a type outside the closed set or an extension overrunning the list, or
\* whose declared list length is not the length of the rest of the body
MalformedClientInitial(In, Parsed) ==
    /\ ~ShortInput(In)
    /\ Byte(In, 0) = QUIC_TLS_MESSAGE_CLIENT_INITIAL
    /\ In.Length >= OffsetExtList
    /\ \/ Parsed.Abort
       \/ OffsetExtList + TlsReadUint16(In, OffsetExtListLength) # Declared(In) + 4

\* C12: a server in state None given a ClientInitial with a malformed
\* extension list returns with Error set (it does not abort), has emitted
\* nothing, has installed no key and is still in state None.
C12_MalformedListIsError ==
    [][(/\ Processing
        /\ Tls.IsServer
        /\ Tls.LastMessageType = QUIC_TLS_MESSAGE_INVALID) =>
         \A In \in {InputTable[Call'.InId]} :
         \A Parsed \in {ParsedExtList(In)} :
            MalformedClientInitial(In, Parsed) =>
                /\ "Error" \in Call'.Flags
                /\ ~Call'.Abort
                /\ Call'.Emitted = << >>
                /\ State'.BufferLength = State.BufferLength
                /\ Call'.Allocs = << >>
                /\ Tls'.LastMessageType = QUIC_TLS_MESSAGE_INVALID]_vars

\* C13: with holders adding and releasing references of their own in any
\* interleaving, RefCount is the number of outstanding references, the
\* config is deleted at most once, only by the holder whose release brought
\* the count to zero, and never while a reference is outstanding.
C13_RefCountIsOutstanding ==
    /\ SecConfig.RefCount = Outstanding(Refs)
    /\ DeletesUpTo(Refs, NHolders) = (IF SecConfig.Deleted THEN 1 ELSE 0)
    /\ SecConfig.Deleted => Outstanding(Refs) = 0
    /\ \A h \in Holders :
          Refs[h].pc = "delete" => SecConfig.RefCount = 0 /\ ~SecConfig.Deleted

\* the holder that started without a reference made the last release and
\* deleted the config
C13_LastHolderDeleted ==
    /\ SecConfig.Deleted
    /\ Refs[NHolders].Deletes = 1

\* C14: QuicTlsReadTicket answers INVALID_STATE whenever TicketReady is
\* false, BUFFER_TOO_SMALL when it is true and the destination is empty or
\* absent, and otherwise stores the one byte 0xFF and the length 1; it leaves
\* the context as it was; TicketReady is set only by a client's processing
\* call that accepted a Ticket record.
C14_ReadTicket ==
    [][/\ Call'.Op = "ReadTicket" =>
            /\ Tls' = Tls /\ State' = State /\ SecConfig' = SecConfig
            /\ ~Tls.TicketReady =>
                  /\ Call'.Status = "INVALID_STATE"
                  /\ Call'.OutBytes = << >>
            /\ (Tls.TicketReady /\ (Call'.DestLength = 0 \/ ~Call'.HasDest)) =>
                  /\ Call'.Status = "BUFFER_TOO_SMALL"
                  /\ Call'.OutBytes = << >>
            /\ (Tls.TicketReady /\ Call'.DestLength > 0 /\ Call'.HasDest) =>
                  /\ Call'.Status = "SUCCESS"
                  /\ Call'.OutBytes = << 255 >>
                  /\ Call'.OutLength = 1
       /\ (~Tls.TicketReady /\ Tls'.TicketReady) =>
            /\ Processing
            /\ ~Tls.IsServer
            /\ "Ticket" \in Call'.Flags
            /\ Byte(InputTable[Call'.InId], 0) = QUIC_TLS_MESSAGE_TICKET]_vars

\* a ticket was read
C14_TicketRead ==
    /\ Call.Op = "ReadTicket"
    /\ Call.Status = "SUCCESS"

\* C15: QuicPacketKeyUpdate succeeds exactly on a key that is present and
\* tagged 1-RTT, and then yields a new key tagged 1-RTT; on no key and on a
\* key of another epoch it answers INVALID_STATE and yields no key.
C15_KeyUpdateOnly1Rtt ==
    [][Call'.Op = "KeyUpdate" =>
         /\ Call'.OldKey \in {State.ReadKeys[e] : e \in Epochs}
                              \cup {State.WriteKeys[e] : e \in Epochs}
                              \cup {QuicPacketKeyCreateInitial}
         /\ Call'.Status = "SUCCESS" <=> Call'.OldKey = "1-RTT"
         /\ Call'.Status = "SUCCESS" => Call'.NewKey = "1-RTT"
         /\ Call'.Status # "SUCCESS" =>
               /\ Call'.Status = "INVALID_STATE"
               /\ Call'.NewKey = NoKey
         /\ State' = State]_vars

\* a 1-RTT key of a handshake was updated
C15_UpdatedOneRtt ==
    /\ Call.Op = "KeyUpdate"
    /\ Call.Status = "SUCCESS"
    /\ State.WriteKeys["1-RTT"] = Call.OldKey

\* the update of a Handshake key was refused
C15_HandshakeKeyRefused ==
    /\ Call.Op = "KeyUpdate"
    /\ Call.OldKey = "Handshake"
    /\ Call.Status = "INVALID_STATE"

\* the client has processed a ServerInitial, a ServerHandshake or a Ticket:
\* Handshake or 1-RTT keys are installed, the handshake is complete or a
\* ticket is ready
ServerResponseProcessed ==
    \/ State.ReadKeys["Handshake"] # NoKey
    \/ State.WriteKeys["Handshake"] # NoKey
    \/ State.ReadKeys["1-RTT"] # NoKey
    \/ State.WriteKeys["1-RTT"] # NoKey
    \/ State.HandshakeComplete
    \/ Tls.TicketReady

\* C16: QuicTlsReset is applied to client contexts only, and only before
\* the client has processed any server response.
C16_ResetOnlyBeforeResponse ==
    [][Call'.Op = "Reset" =>
         /\ ~Tls.IsServer
         /\ ~ServerResponseProcessed]_vars

\* C17: the server's call that emits the first flight installs the 1-RTT
\* write key and sets the write epoch to 1-RTT while the read epoch is
\* Handshake and no 1-RTT read key exists; the 1-RTT read key is installed
\* only by the call that accepts a ClientHandshake whose success flag is
\* true; a server holding a 1-RTT read key has LastMessageType Ticket.
C17_ServerOneRttKeys ==
    [][(Processing /\ Tls.IsServer) =>
         /\ Tls'.LastMessageType = QUIC_TLS_MESSAGE_SERVER_HANDSHAKE =>
               /\ State'.WriteKeys["1-RTT"] # NoKey
               /\ State'.WriteKey = "1-RTT"
               /\ State'.ReadKey = "Handshake"
               /\ State'.ReadKeys["1-RTT"] = NoKey
         /\ (State.ReadKeys["1-RTT"] = NoKey /\ State'.ReadKeys["1-RTT"] # NoKey) =>
               \A In \in {InputTable[Call'.InId]} :
                  /\ Tls.LastMessageType = QUIC_TLS_MESSAGE_SERVER_HANDSHAKE
                  /\ Byte(In, 0) = QUIC_TLS_MESSAGE_CLIENT_HANDSHAKE
                  /\ Byte(In, 4) # 0
                  /\ Tls'.LastMessageType = QUIC_TLS_MESSAGE_TICKET
         /\ State'.ReadKeys["1-RTT"] # NoKey =>
               Tls'.LastMessageType = QUIC_TLS_MESSAGE_TICKET]_vars

\* a server has accepted the ClientHandshake and installed the 1-RTT read
\* key, the 1-RTT write key being there from the first flight
C17_ReadKeyAfterClientHandshake ==
    /\ Tls.IsServer
    /\ Call.Op = "ProcessData"
    /\ Call.Allocs = << << "Read", "1-RTT" >> >>
    /\ State.WriteKeys["1-RTT"] # NoKey

\* a ServerHandshake-state server is handed a whole ClientHandshake record
ServerGivenClientHandshake(In) ==
    /\ Tls.IsServer
    /\ Tls.LastMessageType = QUIC_TLS_MESSAGE_SERVER_HANDSHAKE
    /\ QuicTlsHasValidMessageToProcess(Tls, In)
    /\ Byte(In, 0) = QUIC_TLS_MESSAGE_CLIENT_HANDSHAKE

\* the call released the reference, emitted the Ticket and took the 1-RTT
\* read key
TicketIssued(In) ==
    /\ Tls'.SecConfig = NullPtr
    /\ SecConfig'.RefCount = SecConfig.RefCount - 1
    /\ [k \in 1..Len(Call'.Emitted) |-> Call'.Emitted[k].Type]
           = << QUIC_TLS_MESSAGE_TICKET >>
    /\ State'.BufferLength
           = State.BufferLength + MinMessageLengths(QUIC_TLS_MESSAGE_TICKET)
    /\ State.ReadKeys["1-RTT"] = NoKey
    /\ State'.ReadKeys["1-RTT"] # NoKey
    /\ Call'.Flags = {"Complete", "Data", "ReadKeyUpdated"}
    /\ Call'.Drain = Declared(In) + 4
    /\ Tls'.LastMessageType = QUIC_TLS_MESSAGE_TICKET

\* C18: a server in state ServerHandshake that processes a ClientHandshake
\* whose success flag is false reports Error and changes nothing; when the
\* flag is true and the output region can hold a Ticket record the call
\* releases and clears the SecConfig reference, emits one Ticket record,
\* installs the 1-RTT read key, returns exactly Complete, Data and
\* ReadKeyUpdated, consumes the framed length of the ClientHandshake and
\* sets LastMessageType to Ticket.
C18_ServerAcceptsClientHandshake ==
    [][Processing =>
       \A In \in {InputTable[Call'.InId]} :
         ServerGivenClientHandshake(In) =>
            /\ Byte(In, 4) = 0 =>
                  /\ "Error" \in Call'.Flags
                  /\ Call'.Emitted = << >>
                  /\ << Tls', State', SecConfig' >> = << Tls, State, SecConfig >>
            /\ (/\ Byte(In, 4) # 0
                /\ State.BufferAllocLength - State.BufferLength
                      >= MinMessageLengths(QUIC_TLS_MESSAGE_TICKET)) =>
                  TicketIssued(In)]_vars

\* a ClientInitial-state client is handed a whole ServerHandshake record
ClientGivenServerHandshake(In) ==
    /\ ~Tls.IsServer
    /\ Tls.LastMessageType = QUIC_TLS_MESSAGE_CLIENT_INITIAL
    /\ QuicTlsHasValidMessageToProcess(Tls, In)
    /\ Byte(In, 0) = QUIC_TLS_MESSAGE_SERVER_HANDSHAKE

\* the certificate of the ServerHandshake passed, or was not looked at
CertAccepted ==
    \/ SecConfig.DisableCertValidation
    \/ Call'.Env.ParseOk /\ Call'.Env.ValidateOk

\* any of the things the call does once the certificate is accepted
ClientCompletes ==
    \/ "Complete" \in Call'.Flags
    \/ ~State.HandshakeComplete /\ State'.HandshakeComplete
    \/ \E k \in 1..Len(Call'.Emitted) :
          Call'.Emitted[k].Type = QUIC_TLS_MESSAGE_CLIENT_HANDSHAKE
    \/ State'.ReadKeys["1-RTT"] # State.ReadKeys["1-RTT"]
    \/ State'.WriteKeys["1-RTT"] # State.WriteKeys["1-RTT"]

\* C19: on a ServerHandshake the client signals Complete, sets
\* HandshakeComplete, emits ClientHandshake or installs 1-RTT keys only if
\* certificate validation is disabled or the chain parsed and validated;
\* when parse or validation fails the call reports Error, emits nothing,
\* installs no key, consumes zero bytes and leaves LastMessageType at
\* ClientInitial.
C19_CompleteOnlyIfCertAccepted ==
    [][Processing =>
       \A In \in {InputTable[Call'.InId]} :
         ClientGivenServerHandshake(In) =>
            /\ ClientCompletes => CertAccepted
            /\ ~CertAccepted =>
                  /\ "Error" \in Call'.Flags
                  /\ Call'.Emitted = << >>
                  /\ Call'.Allocs = << >>
                  /\ State'.ReadKeys = State.ReadKeys
                  /\ State'.WriteKeys = State.WriteKeys
                  /\ State'.BufferLength = State.BufferLength
                  /\ Call'.Drain = 0
                  /\ Tls'.LastMessageType = QUIC_TLS_MESSAGE_CLIENT_INITIAL]_vars

\* a client with validation enabled has refused a ServerHandshake whose
\* chain did not validate
C19_CertRefused ==
    /\ ~Tls.IsServer
    /\ Call.Op = "ProcessData"
    /\ Byte(InputTable[Call.InId], 0) = QUIC_TLS_MESSAGE_SERVER_HANDSHAKE
    /\ ~SecConfig.DisableCertValidation
    /\ Call.Env.ParseOk /\ ~Call.Env.ValidateOk
    /\ Call.Flags = {"Error"}
    /\ Tls.LastMessageType = QUIC_TLS_MESSAGE_CLIENT_INITIAL

\* the run is one the handshake is to complete in: both regions hold what
\* their side emits, a signature algorithm is found and the certificate is
\* accepted or not looked at
Favourable ==
    /\ Exchange.Env.CertSelect
    /\ \/ SecConfig.DisableCertValidation
       \/ Exchange.Env.ParseOk /\ Exchange.Env.ValidateOk
    /\ ClientInitialStores(Tls).MessageLength
          + MinMessageLengths(QUIC_TLS_MESSAGE_CLIENT_HANDSHAKE)
          < State.BufferAllocLength
    /\ MinMessageLengths(QUIC_TLS_MESSAGE_SERVER_INITIAL)
          + MinMessageLengths(QUIC_TLS_MESSAGE_SERVER_HANDSHAKE)
          + Len(Exchange.Server.SecConfig.FormatBuffer)
          + MinMessageLengths(QUIC_TLS_MESSAGE_TICKET)
          <= Exchange.Server.State.BufferAllocLength

HandshakeDone ==
    /\ Exchange.ServerComplete
    /\ Exchange.Server.Tls.LastMessageType = QUIC_TLS_MESSAGE_TICKET
    /\ Exchange.ClientComplete
    /\ Tls.TicketReady

\* the calls that emit or consume a record: the client's first, one for each
\* of ClientInitial, ServerInitial, ServerHandshake, ClientHandshake, Ticket
ProgressCalls == Len(RoleOrder(Tls)) + Len(RoleOrder(Exchange.Server.Tls))

\* C20: when a client and a server exchange what they emit in order and
\* without loss, both output regions are large enough, a signature algorithm
\* is found and the certificate is accepted or validation is disabled, the
\* handshake ends: the server signals Complete and reaches Ticket, the client
\* signals Complete and after that takes the Ticket and sets TicketReady,
\* within one call for each record and one for each flight that arrived in
\* pieces.
C20_HandshakeTerminates ==
    /\ Favourable ~> HandshakeDone
    /\ [](Favourable =>
            /\ Exchange.Calls <= ProgressCalls + Exchange.Splits
            /\ Tls.TicketReady => Exchange.ClientComplete
            /\ ~ErrorSeen /\ ~aborted)

\* the handshake of a favourable run has ended, a flight having arrived in
\* pieces
C20_ExchangeDone ==
    /\ Favourable
    /\ HandshakeDone
    /\ Exchange.Splits > 0

\* rundown references other than the listener's own
HeldForConfigs(L) ==
    L.Rundown.RefCount - (IF L.Rundown.Waiting THEN 0 ELSE 1)

LiveServerConfigs(L) ==
    Cardinality({i \in ConfigSlots : L.Configs[i].Live /\ L.Configs[i].Server})

\* C21: the rundown references held for security configs are as many as
\* the live server configs; a successful QuicTlsServerSecConfigCreate calls
\* the completion handler once and keeps one reference, which the config's
\* last release gives back; a failed create calls no handler and leaves the
\* count as it was; a waiting listener proceeds (count zero) once no server
\* config is live.
C21_RundownCountsConfigs ==
    [][/\ HeldForConfigs(Listener') = LiveServerConfigs(Listener')
       /\ Listener'.Last.Op = "ServerCreate" =>
            IF Listener'.Last.Status = "SUCCESS"
            THEN /\ Listener'.Last.Handled = 1
                 /\ Listener'.Rundown.RefCount = Listener.Rundown.RefCount + 1
                 /\ LiveServerConfigs(Listener') = LiveServerConfigs(Listener) + 1
            ELSE /\ Listener'.Last.Handled = 0
                 /\ Listener'.Rundown = Listener.Rundown
                 /\ Listener'.Configs = Listener.Configs
       /\ Listener'.Last.Op = "Release" =>
            Listener'.Rundown.RefCount
               = Listener.Rundown.RefCount
                 - (IF /\ Listener'.Last.Deleted
                       /\ Listener.Configs[Listener'.Last.Slot].Server
                    THEN 1 ELSE 0)
       /\ (Listener'.Rundown.Waiting /\ LiveServerConfigs(Listener') = 0) =>
            Listener'.Rundown.RefCount = 0]_vars

\* the last release of a server config has given the rundown reference back
\* to a waiting listener
C21_LastConfigReleased ==
    /\ Listener.Last.Op = "Release"
    /\ Listener.Last.Deleted
    /\ Listener.Rundown.Waiting
    /\ Listener.Rundown.RefCount = 0

\* a ClientInitial-state client is handed a whole ServerInitial record
ClientGivenServerInitial(In) ==
    /\ ~Tls.IsServer
    /\ Tls.LastMessageType = QUIC_TLS_MESSAGE_CLIENT_INITIAL
    /\ QuicTlsHasValidMessageToProcess(Tls, In)
    /\ Byte(In, 0) = QUIC_TLS_MESSAGE_SERVER_INITIAL

\* what the call on the ServerInitial leaves, its consumed count apart
ServerInitialTaken(In) ==
    /\ Call'.Emitted = << >>
    /\ State'.BufferLength = State.BufferLength
    /\ State'.BufferTotalLength = State.BufferTotalLength
    /\ State'.Buffer = State.Buffer
    /\ Tls'.LastMessageType = QUIC_TLS_MESSAGE_CLIENT_INITIAL
    /\ State'.BufferOffsetHandshake = State.BufferTotalLength
    /\ State'.ReadKeys["Handshake"] # NoKey
    /\ State'.WriteKeys["Handshake"] # NoKey
    /\ Call'.Flags = {"ReadKeyUpdated", "WriteKeyUpdated"}
                       \cup (IF EarlyDataAcceptedBit(In)
                             THEN {"EarlyDataAccept"} ELSE {"EarlyDataReject"})

\* C22: a client in state ClientInitial that processes a ServerInitial emits
\* nothing, stays at ClientInitial, records the Handshake watermark as the
\* current total, installs the Handshake read and write keys, consumes the
\* framed length of the ServerInitial and returns ReadKeyUpdated and
\* WriteKeyUpdated with EarlyDataAccept or EarlyDataReject as the peer's
\* early-data-accepted bit says.
C22_ClientTakesServerInitial ==
    [][Processing =>
       \A In \in {InputTable[Call'.InId]} :
         ClientGivenServerInitial(In) =>
            /\ ServerInitialTaken(In)
            /\ Call'.Drain = Declared(In) + 4]_vars

\* the flag a call raises for a key it installs
KeyFlag(Alloc) ==
    IF Alloc[1] = "Read" THEN "ReadKeyUpdated" ELSE "WriteKeyUpdated"

\* C23: the client's first flight (state None, no input) returns exactly
\* Data, installs the 0-RTT write key and sets the write epoch to 0-RTT
\* without WriteKeyUpdated, consumes nothing and moves to ClientInitial;
\* every call, on either role, that installs a Handshake or 1-RTT key raises
\* ReadKeyUpdated or WriteKeyUpdated for it.
C23_FirstFlightFlags ==
    [][Processing =>
         /\ \A In \in {InputTable[Call'.InId]} :
              FirstClientCall(In) =>
                 /\ Call'.Flags = {"Data"}
                 /\ State'.WriteKeys["0-RTT"] # NoKey
                 /\ State'.WriteKey = "0-RTT"
                 /\ Call'.Allocs = << << "Write", "0-RTT" >> >>
                 /\ Call'.Drain = 0
                 /\ Tls'.LastMessageType = QUIC_TLS_MESSAGE_CLIENT_INITIAL
         /\ \A k \in 1..Len(Call'.Allocs) :
              Call'.Allocs[k][2] \in {"Handshake", "1-RTT"} =>
                 KeyFlag(Call'.Allocs[k]) \in Call'.Flags
         /\ \A e \in {"Handshake", "1-RTT"} :
              /\ State'.ReadKeys[e] # State.ReadKeys[e] =>
                    "ReadKeyUpdated" \in Call'.Flags
              /\ State'.WriteKeys[e] # State.WriteKeys[e] =>
                    "WriteKeyUpdated" \in Call'.Flags]_vars

\* a client has sent its first flight and holds the 0-RTT write key
C23_FirstFlightSent ==
    /\ ~Tls.IsServer
    /\ Call.Op = "ProcessData"
    /\ InputTable[Call.InId].Length = 0
    /\ Call.Flags = {"Data"}
    /\ State.WriteKey = "0-RTT"
    /\ State.WriteKeys["0-RTT"] # NoKey

\* a server past its first flight is handed a whole record it does not
\* accept: anything but ClientHandshake in state ServerHandshake, anything
\* at all in another state
ServerGivenUnexpected(In) ==
    /\ Tls.IsServer
    /\ Tls.LastMessageType # QUIC_TLS_MESSAGE_INVALID
    /\ QuicTlsHasValidMessageToProcess(Tls, In)
    /\ \/ Tls.LastMessageType # QUIC_TLS_MESSAGE_SERVER_HANDSHAKE
       \/ Byte(In, 0) # QUIC_TLS_MESSAGE_CLIENT_HANDSHAKE

\* C24: a server in state ServerHandshake given a complete message other
\* than ClientHandshake, and a server in state Ticket (or any other state
\* past None) given any complete message, reports Error, consumes nothing,
\* emits nothing, installs no key and leaves LastMessageType as it was.
C24_ServerRejectsUnexpected ==
    [][Processing =>
       \A In \in {InputTable[Call'.InId]} :
         ServerGivenUnexpected(In) =>
            /\ Call'.Flags = {"Error"}
            /\ Call'.Drain = 0
            /\ Call'.Emitted = << >>
            /\ Call'.Allocs = << >>
            /\ State' = State
            /\ Tls' = Tls]_vars

\* a server that has sent Ticket has refused a record
C24_RefusedAfterTicket ==
    /\ Tls.IsServer
    /\ Tls.LastMessageType = QUIC_TLS_MESSAGE_TICKET
    /\ Call.Op = "ProcessData"
    /\ Call.Flags = {"Error"}

\* the call reaches QuicTlsSecConfigRelease(TlsContext->SecConfig) of the
\* ServerHandshake case
ReleasesSecConfig(In) ==
    /\ ServerGivenClientHandshake(In)
    /\ Byte(In, 4) # 0

\* C25: a context gives its SecConfig reference back once: no processing
\* call invokes QuicTlsSecConfigRelease through a reference the context has
\* already released and cleared (a ClientHandshake processed again after the
\* Ticket did not fit included), and the count never loses more than the
\* context's one reference.
C25_ReleasedOnce ==
    [][Processing =>
       \A In \in {InputTable[Call'.InId]} :
          /\ ReleasesSecConfig(In) => Tls.SecConfig # NullPtr
          /\ SecConfig'.RefCount >= NewSecConfig(FALSE, << >>).RefCount - 1
          /\ SecConfig'.RefCount # SecConfig.RefCount =>
                /\ Tls.SecConfig # NullPtr
                /\ Tls'.SecConfig = NullPtr]_vars

\* a None-state server is handed a record that passed the gate
ServerParses(In) ==
    /\ Tls.IsServer
    /\ Tls.LastMessageType = QUIC_TLS_MESSAGE_INVALID
    /\ QuicTlsHasValidMessageToProcess(Tls, In)

\* C26: parsing a ClientInitial the server reads no byte at or beyond the
\* end of the bytes the gate checked (the declared length + 4, which the
\* input holds), whatever the declared list length, extension lengths and
\* name length are.
C26_ParseStaysInMessage ==
    [][Processing =>
       \A In \in {InputTable[Call'.InId]} :
          ServerParses(In) => ~Call'.OOBRead]_vars

\* the call emits the record that completes the handshake and advances
\* LastMessageType: ClientHandshake on the client, Ticket on the server
CompletingRecord ==
    \A T \in {IF Tls.IsServer THEN QUIC_TLS_MESSAGE_TICKET
              ELSE QUIC_TLS_MESSAGE_CLIENT_HANDSHAKE} :
       /\ \E i \in 1..Len(Call'.Emitted) : Call'.Emitted[i].Type = T
       /\ Tls'.LastMessageType = T
       /\ Tls.LastMessageType # T

\* C27: no processing call returns both Error and Complete; the Complete
\* flag, the HandshakeComplete state flag and the release of the server's
\* SecConfig reference happen only in a call that also emits the completing
\* record and advances LastMessageType, a too small output region included.
C27_CompleteWithRecord ==
    [][Processing =>
         /\ ~({"Error", "Complete"} \subseteq Call'.Flags)
         /\ "Complete" \in Call'.Flags => CompletingRecord
         /\ (~State.HandshakeComplete /\ State'.HandshakeComplete)
               => CompletingRecord
         /\ (Tls.IsServer /\ Tls.SecConfig # NullPtr
                /\ Tls'.SecConfig = NullPtr) => CompletingRecord]_vars

\* the call changed the used length or the total length of the output region
ProducedOutput ==
    \/ State'.BufferLength # State.BufferLength
    \/ State'.BufferTotalLength # State.BufferTotalLength

\* C28: a processing call's result contains Data exactly if the call changed
\* BufferLength or BufferTotalLength; a call that reports Error without Data
\* leaves the used length, the total length and both watermarks as they were.
C28_DataIffOutput ==
    [][Processing =>
         /\ "Data" \in Call'.Flags <=> ProducedOutput
         /\ ("Error" \in Call'.Flags /\ "Data" \notin Call'.Flags) =>
               /\ State'.BufferLength = State.BufferLength
               /\ State'.BufferTotalLength = State.BufferTotalLength
               /\ State'.BufferOffsetHandshake = State.BufferOffsetHandshake
               /\ State'.BufferOffset1Rtt = State.BufferOffset1Rtt]_vars

\* the number of bytes of the records a call emitted
RECURSIVE EmittedLength(_)
EmittedLength(E) ==
    IF E = << >> THEN 0 ELSE Head(E).MessageLength + EmittedLength(Tail(E))

\* C29: a processing call that emits output appends it: the first emitted
\* record starts at the pre-call BufferLength, BufferLength and
\* BufferTotalLength each grow by the number of bytes emitted, and the bytes
\* buffered before the call are kept - for every pre-call BufferLength below
\* BufferAllocLength, a non-zero one at the first flight included.
C29_OutputAppended ==
    [][(/\ Processing
        /\ Call'.Emitted # << >>
        /\ State.BufferLength < State.BufferAllocLength) =>
         /\ Call'.Emitted[1].Offset = State.BufferLength
         /\ State'.BufferLength =
               State.BufferLength + EmittedLength(Call'.Emitted)
         /\ State'.BufferTotalLength =
               State.BufferTotalLength + EmittedLength(Call'.Emitted)
         /\ \A i \in 1..State.BufferLength :
               State'.Buffer[i] = State.Buffer[i]]_vars

\* the key handle the slot of an allocation held before the call
SlotBefore(Alloc) ==
    IF Alloc[1] = "Read" THEN State.ReadKeys[Alloc[2]]
    ELSE State.WriteKeys[Alloc[2]]

\* C30: across processing calls and resets every epoch slot of the read-key
\* table and of the write-key table is assigned at most once: a call stores
\* a newly allocated key handle only in a slot that holds none and in no
\* slot twice, so no key handle is leaked.
C30_SlotAssignedOnce ==
    [][Processing =>
         /\ \A k \in 1..Len(Call'.Allocs) : SlotBefore(Call'.Allocs[k]) = NoKey
         /\ \A j, k \in 1..Len(Call'.Allocs) :
               Call'.Allocs[j] = Call'.Allocs[k] => j = k]_vars

\* the position of an epoch in the order Initial, 0-RTT, Handshake, 1-RTT
EpochOrder(e) ==
    CASE e = "Initial" -> 0
      [] e = "0-RTT" -> 1
      [] e = "Handshake" -> 2
      [] e = "1-RTT" -> 3

\* the call installs a 1-RTT key or signals Complete
ReachesOneRtt ==
    \/ "Complete" \in Call'.Flags
    \/ \E k \in 1..Len(Call'.Allocs) : Call'.Allocs[k][2] = "1-RTT"

\* a ServerInitial was processed: both Handshake keys are installed and the
\* Handshake watermark is recorded
HandshakeEpochReady ==
    /\ State.ReadKeys["Handshake"] # NoKey
    /\ State.WriteKeys["Handshake"] # NoKey
    /\ State.BufferOffsetHandshake # 0

\* C31: on the client the epochs are installed in order: a call installs
\* 1-RTT keys or signals Complete only when the Handshake read and write keys
\* are installed and the Handshake watermark is recorded (a ServerHandshake
\* is accepted only after a ServerInitial), and the active read and write
\* epochs never move to an earlier epoch.
C31_ClientEpochOrder ==
    [][(Processing /\ ~Tls.IsServer) =>
         /\ ReachesOneRtt => HandshakeEpochReady
         /\ EpochOrder(State'.ReadKey) >= EpochOrder(State.ReadKey)
         /\ EpochOrder(State'.WriteKey) >= EpochOrder(State.WriteKey)]_vars

\* C32: a processing call that reports Error reports zero bytes consumed
\* and leaves LastMessageType and TicketReady as they were, for both roles,
\* every state and every input.
C32_ErrorConsumesNothing ==
    [][(Processing /\ "Error" \in Call'.Flags) =>
         /\ Call'.Drain = 0
         /\ Tls'.LastMessageType = Tls.LastMessageType
         /\ Tls'.TicketReady = Tls.TicketReady]_vars

\* a call reported Error on a record that passed the gate, in a state that
\* had already advanced
C32_ErrorReported ==
    /\ Call.Op = "ProcessData"
    /\ "Error" \in Call.Flags
    /\ ~Call.Abort
    /\ Tls.LastMessageType # QUIC_TLS_MESSAGE_INVALID
    /\ InputTable[Call.InId].Length >= 7

====
